---- MODULE Spec2Model ----
(***************************************************************************)
(* Random Spot Certificate: the payment/e-mail function                    *)
(* (netlify/functions/stripe.js) and the sampling orchestrators            *)
(* rollUntilGood (v3 front end) and rollUntilLikelyLand (public/app.js).   *)
(*                                                                         *)
(* JavaScript strings are sequences of one-character strings, so that      *)
(* trim, slice, toLowerCase and the e-mail pattern are computed rather     *)
(* than assumed.                                                           *)
(***************************************************************************)
EXTENDS Integers, Sequences, FiniteSets, Bags, TLC

\* ---------------------------------------------------------------- bounds
\* Number of deliver invocations (Lambda executions) that may be in flight.
MaxCalls == 2
\* Number of create requests the function receives.
MaxCreates == 1
\* Largest maxAttempts handed to an orchestrator run.
MaxAttemptsBound == 4

\* calls of the point generators in one behaviour
MaxRolls == 2
\* user events on the generation page
MaxEvents == 3
\* clicks on the pay button of the checkout page
MaxClicks == 3

\* ------------------------------------------------------- program constants
\* asStr(body.email, 120) and asStr(meta.email, 120)
EmailMax == 120
\* asStr(body.email_consent, 10)
ConsentMax == 10
\* asStr(session_id, 200)
SessionIdMax == 200

\* ------------------------------------------------------------ JS strings
Undefined == [type |-> "undefined", val |-> <<>>]

Str(s) == [type |-> "string", val |-> s]

IsString(v) == v.type = "string"

WhiteSpace == {" "}

RECURSIVE TrimStart(_)
TrimStart(s) ==
  IF s # <<>> /\ Head(s) \in WhiteSpace THEN TrimStart(Tail(s)) ELSE s

RECURSIVE TrimEnd(_)
TrimEnd(s) ==
  IF s # <<>> /\ s[Len(s)] \in WhiteSpace
  THEN TrimEnd(SubSeq(s, 1, Len(s) - 1))
  ELSE s

Trim(s) == TrimEnd(TrimStart(s))

UpperChars ==
  <<"A", "B", "C", "D", "E", "F", "G", "H", "I", "J", "K", "L", "M",
    "N", "O", "P", "Q", "R", "S", "T", "U", "V", "W", "X", "Y", "Z">>

LowerChars ==
  <<"a", "b", "c", "d", "e", "f", "g", "h", "i", "j", "k", "l", "m",
    "n", "o", "p", "q", "r", "s", "t", "u", "v", "w", "x", "y", "z">>

\* String.prototype.toLowerCase, one character
LowerChar(c) ==
  IF \E k \in 1..26 : UpperChars[k] = c
  THEN LowerChars[CHOOSE k \in 1..26 : UpperChars[k] = c]
  ELSE c

toLowerCase(s) == [k \in 1..Len(s) |-> LowerChar(s[k])]

\* v || d for a string-or-undefined v: "" and undefined are falsy
OrElse(v, d) == IF IsString(v) /\ v.val # <<>> THEN v ELSE d

\* const asStr = (v, max) => typeof v !== "string" ? "" : trim, then slice(0, max)
asStr(v, max) ==
  IF ~IsString(v) THEN <<>>
  ELSE LET s == Trim(v.val)
       IN  IF Len(s) > max THEN SubSeq(s, 1, max) ELSE s

\* /^[^\s@]+@[^\s@]+\.[^\s@]+$/
looksLikeEmail(email) ==
  /\ \A k \in 1..Len(email) : email[k] \notin WhiteSpace
  /\ Cardinality({k \in 1..Len(email) : email[k] = "@"}) = 1
  /\ LET at == CHOOSE k \in 1..Len(email) : email[k] = "@"
     IN  /\ at > 1
         /\ \E dot \in (at + 2)..(Len(email) - 1) : email[dot] = "."

startsWithCs(s) == Len(s) >= 3 /\ SubSeq(s, 1, 3) = <<"c", "s", "_">>

\* ------------------------------------------------------------ JS numbers
\* A finite decimal is m / 10^d, negated when neg; NaN and Infinity are kinds.
DigitChars == <<"0", "1", "2", "3", "4", "5", "6", "7", "8", "9">>

IsDigit(c) == \E k \in 1..10 : DigitChars[k] = c

DigitVal(c) == (CHOOSE k \in 1..10 : DigitChars[k] = c) - 1

RECURSIVE Pow10(_)
Pow10(n) == IF n = 0 THEN 1 ELSE 10 * Pow10(n - 1)

RECURSIVE DigitsToNat(_)
DigitsToNat(s) ==
  IF s = <<>> THEN 0
  ELSE 10 * DigitsToNat(SubSeq(s, 1, Len(s) - 1)) + DigitVal(s[Len(s)])

RECURSIVE NatToDigits(_)
NatToDigits(n) ==
  IF n < 10 THEN <<DigitChars[n + 1]>>
  ELSE NatToDigits(n \div 10) \o <<DigitChars[(n % 10) + 1]>>

NaN == [kind |-> "nan", neg |-> FALSE, m |-> 0, d |-> 0]

Infinity == [kind |-> "inf", neg |-> FALSE, m |-> 0, d |-> 0]

Num(neg, m, d) == [kind |-> "num", neg |-> neg, m |-> m, d |-> d]

\* Number(s) for an already trimmed string: "" is 0, a decimal literal is its
\* value, "Infinity" is infinite and anything else is NaN.
Number(s) ==
  IF s = <<>> THEN Num(FALSE, 0, 0)
  ELSE IF s = <<"I", "n", "f", "i", "n", "i", "t", "y">> THEN Infinity
  ELSE
    LET neg  == s[1] = "-"
        body == IF s[1] \in {"-", "+"} THEN Tail(s) ELSE s
        dots == {k \in 1..Len(body) : body[k] = "."}
        dot  == IF dots = {} THEN Len(body) + 1 ELSE CHOOSE k \in dots : TRUE
        ip   == SubSeq(body, 1, dot - 1)
        fp   == SubSeq(body, dot + 1, Len(body))
    IN  IF /\ Cardinality(dots) <= 1
           /\ Len(ip) + Len(fp) >= 1
           /\ \A k \in 1..Len(ip) : IsDigit(ip[k])
           /\ \A k \in 1..Len(fp) : IsDigit(fp[k])
        THEN Num(neg, DigitsToNat(ip \o fp), Len(fp))
        ELSE NaN

isFinite(x) == x.kind = "num"

\* Math.abs(x) > bound, for a finite x and an integer bound
AbsGreater(x, bound) == x.m > bound * Pow10(x.d)

\* x <= 0 for a finite x
NonPositive(x) == x.m = 0 \/ x.neg

PadLeft(s, n) == [k \in 1..(n - Len(s)) |-> "0"] \o s

\* Number.prototype.toFixed(6): the nearest multiple of 10^-6, ties upward in
\* magnitude; the sign is written whenever x < 0.
toFixed6(x) ==
  LET u == IF x.d <= 6 THEN x.m * Pow10(6 - x.d)
           ELSE (x.m + 5 * Pow10(x.d - 7)) \div Pow10(x.d - 6)
      sign == IF x.neg /\ x.m > 0 THEN <<"-">> ELSE <<>>
  IN  sign \o NatToDigits(u \div 1000000) \o <<".">>
           \o PadLeft(NatToDigits(u % 1000000), 6)

RECURSIVE StripZeros(_)
StripZeros(s) ==
  IF s # <<>> /\ s[Len(s)] = "0" THEN StripZeros(SubSeq(s, 1, Len(s) - 1)) ELSE s

\* String(x) for a finite decimal in the range where JS prints no exponent
NumToString(x) ==
  LET p    == Pow10(x.d)
      frac == StripZeros(PadLeft(NatToDigits(x.m % p), x.d))
      sign == IF x.neg /\ x.m > 0 THEN <<"-">> ELSE <<>>
  IN  sign \o NatToDigits(x.m \div p)
           \o (IF frac = <<>> THEN <<>> ELSE <<".">> \o frac)

\* ------------------------------------------------- 32-bit unsigned words
\* A word is <<hi, lo>>, two 16-bit halves (TLC's integers are 32-bit signed).
Half == 65536

Word(hi, lo) == <<hi % Half, lo % Half>>

RECURSIVE XorBits(_, _, _)
XorBits(a, b, n) ==
  IF n = 0 THEN 0
  ELSE (((a % 2) + (b % 2)) % 2) + 2 * XorBits(a \div 2, b \div 2, n - 1)

RECURSIVE OrBits(_, _, _)
OrBits(a, b, n) ==
  IF n = 0 THEN 0
  ELSE (IF (a % 2) + (b % 2) > 0 THEN 1 ELSE 0) + 2 * OrBits(a \div 2, b \div 2, n - 1)

\* a ^ b
Xor32(a, b) == <<XorBits(a[1], b[1], 16), XorBits(a[2], b[2], 16)>>

\* a | b
Or32(a, b) == <<OrBits(a[1], b[1], 16), OrBits(a[2], b[2], 16)>>

RECURSIVE Pow2(_)
Pow2(n) == IF n = 0 THEN 1 ELSE 2 * Pow2(n - 1)

\* a >>> n, for 0 < n < 16
Shr32(a, n) ==
  <<a[1] \div Pow2(n), (a[2] \div Pow2(n)) + (a[1] % Pow2(n)) * Pow2(16 - n)>>

\* (a + b) mod 2^32
Add32(a, b) ==
  LET lo == a[2] + b[2]
  IN  Word(a[1] + b[1] + (lo \div Half), lo)

\* the full product of two 16-bit halves, as a word
MulHalves(x, y) ==
  LET p0  == (x % 256) * y
      p1  == (x \div 256) * y
      low == p0 + (p1 % 256) * 256
  IN  <<(p1 \div 256) + (low \div Half), low % Half>>

\* Math.imul(a, b): the low 32 bits of the product
imul(a, b) ==
  LET ll    == MulHalves(a[2], b[2])
      cross == MulHalves(a[1], b[2])[2] + MulHalves(a[2], b[1])[2]
  IN  Word(ll[1] + cross, ll[2])

\* ------------------------------------------------------------ char codes
\* String.prototype.charCodeAt over letters, digits, "-" and "|"
charCodeAt(c) ==
  IF c = "-" THEN 45
  ELSE IF c = "|" THEN 124
  ELSE IF IsDigit(c) THEN 48 + DigitVal(c)
  ELSE IF \E k \in 1..26 : UpperChars[k] = c
  THEN 64 + (CHOOSE k \in 1..26 : UpperChars[k] = c)
  ELSE 96 + (CHOOSE k \in 1..26 : LowerChars[k] = c)

\* --------------------------------------------------- hashStrToSeed, mulberry32
\* 2166136261 = 0x811C9DC5
FnvOffset == <<33052, 40389>>

\* 16777619 = 0x01000193
FnvPrime == <<256, 403>>

\* 0x6D2B79F5
MulberryStep == <<27947, 31221>>

\* one round of the fold: h ^= code; h = Math.imul(h, 16777619)
hashStep(h, code) == imul(Xor32(h, <<0, code>>), FnvPrime)

\* the loop over str, starting from h. The string is folded by halves, first
\* half first, which applies the rounds in the order of the loop; the test on
\* left makes TLC finish the first half before it starts the second.
RECURSIVE hashFold(_, _)
hashFold(h, str) ==
  IF Len(str) = 0 THEN h
  ELSE IF Len(str) = 1 THEN hashStep(h, charCodeAt(str[1]))
  ELSE LET m    == Len(str) \div 2
           left == hashFold(h, SubSeq(str, 1, m))
       IN  IF left[1] >= 0 THEN hashFold(left, SubSeq(str, m + 1, Len(str))) ELSE left

hashStrToSeed(str) == hashFold(FnvOffset, str)

\* the value (x ^ (x >>> 14)) >>> 0 that one call of the generator returns
\* (before the division by 2^32) when its state has been advanced to t
mulberryOut(t) ==
  LET x1 == imul(Xor32(t, Shr32(t, 15)), Or32(<<0, 1>>, t))
      x2 == Xor32(x1, Add32(x1, imul(Xor32(x1, Shr32(x1, 7)), Or32(<<0, 61>>, x1))))
  IN  Xor32(x2, Shr32(x2, 14))

\* the state of the generator after n draws: t += 0x6D2B79F5 each time. The
\* draws are taken by halves, the first half first.
RECURSIVE mulberryState(_, _)
mulberryState(seed, n) ==
  IF n = 0 THEN seed
  ELSE IF n = 1 THEN Add32(seed, MulberryStep)
  ELSE LET m    == n \div 2
           left == mulberryState(seed, m)
       IN  IF left[1] >= 0 THEN mulberryState(left, n - m) ELSE left

\* the n-th draw (n = 1, 2, ...) of mulberry32(seed), times 2^32
mulberry32(seed, n) == mulberryOut(mulberryState(seed, n))

HexChars ==
  <<"0", "1", "2", "3", "4", "5", "6", "7", "8", "9", "a", "b", "c", "d", "e", "f">>

RECURSIVE HexOf(_)
HexOf(n) ==
  IF n < 16 THEN <<HexChars[n + 1]>>
  ELSE HexOf(n \div 16) \o <<HexChars[(n % 16) + 1]>>

PadHex4(s) == [k \in 1..(4 - Len(s)) |-> "0"] \o s

\* seed32.toString(16)
toHex(w) == IF w[1] = 0 THEN HexOf(w[2]) ELSE HexOf(w[1]) \o PadHex4(HexOf(w[2]))

\* ------------------------------------------------- the point generator
\* COUNTRY_BOUNDS, in millionths of a degree
COUNTRY_BOUNDS ==
  [cc \in {<<"N", "Z">>, <<"A", "U">>, <<"U", "S">>, <<"G", "B">>, <<"J", "P">>} |->
     CASE cc = <<"N", "Z">> ->
            [name |-> "New Zealand", latMin |-> -47500000, latMax |-> -34000000,
             lonMin |-> 166000000, lonMax |-> 179800000]
       [] cc = <<"A", "U">> ->
            [name |-> "Australia", latMin |-> -43800000, latMax |-> -10000000,
             lonMin |-> 112000000, lonMax |-> 154000000]
       [] cc = <<"U", "S">> ->
            [name |-> "USA (lower 48)", latMin |-> 24500000, latMax |-> 49500000,
             lonMin |-> -125000000, lonMax |-> -66500000]
       [] cc = <<"G", "B">> ->
            [name |-> "United Kingdom", latMin |-> 49800000, latMax |-> 59000000,
             lonMin |-> -8600000, lonMax |-> 1800000]
       [] cc = <<"J", "P">> ->
            [name |-> "Japan", latMin |-> 30000000, latMax |-> 45800000,
             lonMin |-> 129000000, lonMax |-> 145800000]]

\* NaN as a coordinate: a value outside every range of coordinates
NaNCoord == 999999999

\* COUNTRY_BOUNDS is an object literal, so a property read on it also finds
\* what it inherits from Object.prototype: functions, which are truthy, whose
\* name is a string and whose latMin, latMax, lonMin, lonMax are undefined.
ObjectPrototype ==
  [cc \in {<<"c", "o", "n", "s", "t", "r", "u", "c", "t", "o", "r">>,
           <<"t", "o", "S", "t", "r", "i", "n", "g">>,
           <<"v", "a", "l", "u", "e", "O", "f">>} |->
     CASE cc = <<"c", "o", "n", "s", "t", "r", "u", "c", "t", "o", "r">> -> "Object"
       [] cc = <<"t", "o", "S", "t", "r", "i", "n", "g">> -> "toString"
       [] cc = <<"v", "a", "l", "u", "e", "O", "f">> -> "valueOf"]

\* COUNTRY_BOUNDS[countryCode] || COUNTRY_BOUNDS.NZ
BoundsOf(countryCode) ==
  IF countryCode \in DOMAIN COUNTRY_BOUNDS
  THEN COUNTRY_BOUNDS[countryCode]
  ELSE IF countryCode \in DOMAIN ObjectPrototype
  THEN [name |-> ObjectPrototype[countryCode], latMin |-> NaNCoord,
        latMax |-> NaNCoord, lonMin |-> NaNCoord, lonMax |-> NaNCoord]
  ELSE COUNTRY_BOUNDS[<<"N", "Z">>]

\* a scaling by the high half of the draw only, the step rounded up
ScaleDrawCoarse(min, max, draw) ==
  min + (((max - min) \div Half) + 1) * draw[1]

\* Number((min + r * (max - min)).toFixed(6)) for r = draw / 2^32, in millionths
\* of a degree. The product draw * span is formed exactly, byte by byte; toFixed
\* rounds the magnitude to the nearest millionth, ties away from zero. (The
\* double arithmetic of the source differs from the exact value by less than
\* 10^-13 degrees.)
ScaleDraw(min, max, draw) ==
  LET span == max - min
      x0 == draw[2] % 256
      x1 == draw[2] \div 256
      x2 == draw[1] % 256
      x3 == draw[1] \div 256
      s0 == span % 256
      s1 == (span \div 256) % 256
      s2 == (span \div 65536) % 256
      s3 == span \div 16777216
      c0 == x0 * s0
      c1 == x0 * s1 + x1 * s0 + (c0 \div 256)
      c2 == x0 * s2 + x1 * s1 + x2 * s0 + (c1 \div 256)
      c3 == x0 * s3 + x1 * s2 + x2 * s1 + x3 * s0 + (c2 \div 256)
      c4 == x1 * s3 + x2 * s2 + x3 * s1 + (c3 \div 256)
      c5 == x2 * s3 + x3 * s2 + (c4 \div 256)
      c6 == x3 * s3 + (c5 \div 256)
      q  == (c4 % 256) + 256 * (c5 % 256) + 65536 * c6
      p3 == c3 % 256
      low == (c0 % 256) + (c1 % 256) + (c2 % 256)
      base == min + q
  IN  IF base >= 0
      THEN base + (IF p3 >= 128 THEN 1 ELSE 0)
      ELSE base + (IF p3 > 128 \/ (p3 = 128 /\ low > 0) THEN 1 ELSE 0)

\* the same with undefined bounds: undefined + r * (undefined - undefined) is
\* NaN, NaN.toFixed(6) is "NaN" and Number("NaN") is NaN
Coordinate(min, max, draw) ==
  IF min = NaNCoord \/ max = NaNCoord THEN NaNCoord ELSE ScaleDraw(min, max, draw)

\* a base string that leaves the attempt number out
BaseStringNoAttempt(countryCode, mode, userSeed, rerolls) ==
  countryCode \o <<"|">> \o mode \o <<"|">> \o userSeed \o <<"|">>

\* `${countryCode}|${mode}|${userSeed}|${rerolls}`
BaseString(countryCode, mode, userSeed, rerolls) ==
  countryCode \o <<"|">> \o mode \o <<"|">> \o userSeed \o <<"|">> \o NatToDigits(rerolls)

\* the fields that rollCenter (v3) and rollSpot (app.js) both compute
PointOf(countryCode, mode, userSeed, rerolls) ==
  LET bounds == BoundsOf(countryCode)
      seed32 == hashStrToSeed(BaseString(countryCode, mode, userSeed, rerolls))
  IN  [country |-> bounds.name,
       countryCode |-> countryCode,
       mode |-> mode,
       lat |-> Coordinate(bounds.latMin, bounds.latMax, mulberry32(seed32, 1)),
       lon |-> Coordinate(bounds.lonMin, bounds.lonMax, mulberry32(seed32, 2)),
       seed |-> countryCode \o <<"-">> \o mode \o <<"-">> \o toHex(seed32),
       rerolls |-> rerolls]

\* part_001: rollCenter (the brand field is the constant BRAND)
rollCenter(countryCode, mode, userSeed, rerolls) ==
  PointOf(countryCode, mode, userSeed, rerolls)

\* rollSpot with its two draws in the other order, the first for lon
rollSpotLonFirst(countryCode, mode, userSeed, rerolls) ==
  LET bounds == BoundsOf(countryCode)
      seed32 == hashStrToSeed(BaseString(countryCode, mode, userSeed, rerolls))
  IN  [PointOf(countryCode, mode, userSeed, rerolls) EXCEPT
         !.lat = Coordinate(bounds.latMin, bounds.latMax, mulberry32(seed32, 2)),
         !.lon = Coordinate(bounds.lonMin, bounds.lonMax, mulberry32(seed32, 1))]

\* public/app.js: rollSpot
rollSpot(countryCode, mode, userSeed, rerolls) ==
  PointOf(countryCode, mode, userSeed, rerolls)

\* ------------------------------------- part_000: rollSpot with land bias
\* Natural numbers of any size, as sequences of 16-bit limbs, lowest first.
\* An operation takes its operands x and y as values a and b (the one element
\* of {x} and of {y}) before it visits their limbs.
BigOfNat(n) == <<n % Half, n \div Half>>

BigOfWord(w) == <<w[2], w[1]>>

\* x * 2^32
BigShift32(x) == <<0, 0>> \o x

BigLimb(x, k) == IF k <= Len(x) THEN x[k] ELSE 0

BigMaxLen(x, y) == IF Len(x) >= Len(y) THEN Len(x) ELSE Len(y)

RECURSIVE BigAddFrom(_, _, _, _)
BigAddFrom(x, y, k, carry) ==
  IF k > BigMaxLen(x, y)
  THEN IF carry = 0 THEN <<>> ELSE <<carry>>
  ELSE LET sum == BigLimb(x, k) + BigLimb(y, k) + carry
       IN  <<sum % Half>> \o BigAddFrom(x, y, k + 1, sum \div Half)

BigAdd(x, y) == CHOOSE r \in {BigAddFrom(a, b, 1, 0) : a \in {x}, b \in {y}} : TRUE

\* x - y, for x >= y
RECURSIVE BigSubFrom(_, _, _, _)
BigSubFrom(x, y, k, borrow) ==
  IF k > BigMaxLen(x, y) THEN <<>>
  ELSE LET diff == BigLimb(x, k) - BigLimb(y, k) - borrow
       IN  <<(diff + Half) % Half>> \o BigSubFrom(x, y, k + 1, IF diff < 0 THEN 1 ELSE 0)

BigSub(x, y) == CHOOSE r \in {BigSubFrom(a, b, 1, 0) : a \in {x}, b \in {y}} : TRUE

\* x < y
RECURSIVE BigLessFrom(_, _, _)
BigLessFrom(x, y, k) ==
  IF k = 0 THEN FALSE
  ELSE IF BigLimb(x, k) # BigLimb(y, k) THEN BigLimb(x, k) < BigLimb(y, k)
  ELSE BigLessFrom(x, y, k - 1)

BigLess(x, y) == \E a \in {x}, b \in {y} : BigLessFrom(a, b, BigMaxLen(a, b))

\* x * m for one limb m
RECURSIVE BigMulLimbFrom(_, _, _, _)
BigMulLimbFrom(x, m, k, carry) ==
  IF k > Len(x)
  THEN IF carry = 0 THEN <<>> ELSE <<carry>>
  ELSE LET prod == MulHalves(x[k], m)
           sum  == prod[2] + carry
       IN  <<sum % Half>> \o BigMulLimbFrom(x, m, k + 1, prod[1] + (sum \div Half))

RECURSIVE BigMulFrom(_, _, _)
BigMulFrom(x, y, k) ==
  IF k > Len(y) THEN <<>>
  ELSE BigAdd(BigMulLimbFrom(x, y[k], 1, 0), <<0>> \o BigMulFrom(x, y, k + 1))

BigMul(x, y) == CHOOSE r \in {BigMulFrom(a, b, 1) : a \in {x}, b \in {y}} : TRUE

\* |min + r * span| * 10^6 * 2^32 for r = draw / 2^32: the magnitude of a
\* coordinate before it is rounded, min and span in millionths of a degree
AbsScaled(min, span, draw) ==
  CHOOSE r \in
    { IF min >= 0 THEN BigAdd(base, grown)
      ELSE IF BigLess(grown, base) THEN BigSub(base, grown)
      ELSE BigSub(grown, base) :
        grown \in {BigMul(BigOfWord(draw), BigOfNat(span))},
        base  \in {BigShift32(BigOfNat(IF min < 0 THEN 0 - min ELSE min))} } : TRUE

\* x mod y by subtraction, for x below a few times y
RECURSIVE BigMod(_, _)
BigMod(x, y) ==
  CHOOSE r \in {IF BigLess(a, y) THEN a ELSE BigMod(BigSub(a, y), y) : a \in {x}} : TRUE

\* 90 degrees, 180 degrees and 900 degrees, times 10^6 * 2^32
Big90 == BigShift32(BigOfNat(90000000))

Big180 == BigShift32(BigOfNat(180000000))

Big900 == BigShift32(BigOfNat(900000000))

\* landBiasAccept(lat, lon, rng) with oceanishHeuristic, for the coordinates
\* drawn by dLat and dLon and the third draw dAcc:
\*   p = clamp((1 - |lat| / 90) * (1 - (|lon % 180| / 180) * 0.2), 0, 1)
\*   rng() < clamp(p * 1.15, 0.05, 0.95)
\* in exact arithmetic: with a / Big90 the first factor and b / Big900 the
\* second, the test is  dAcc * 100 * Big90 * Big900 < 2^32 * clamp(115 * a * b,
\* 5 * Big90 * Big900, 95 * Big90 * Big900).
landBiasAccept(bounds, dLat, dLon, dAcc) ==
  \E absLat \in {AbsScaled(bounds.latMin, bounds.latMax - bounds.latMin, dLat)},
     absLon \in {AbsScaled(bounds.lonMin, bounds.lonMax - bounds.lonMin, dLon)},
     whole  \in {BigMul(Big90, Big900)} :
    \E a \in {IF BigLess(absLat, Big90) THEN BigSub(Big90, absLat) ELSE <<0>>},
       b \in {BigSub(Big900, BigMod(absLon, Big180))} :
      \E raw  \in {BigMul(BigOfNat(115), BigMul(a, b))},
         low  \in {BigMul(BigOfNat(5), whole)},
         high \in {BigMul(BigOfNat(95), whole)} :
        \E bound \in {IF BigLess(raw, low) THEN low
                      ELSE IF BigLess(high, raw) THEN high ELSE raw} :
          BigLess(BigMul(BigMul(BigOfWord(dAcc), BigOfNat(100)), whole),
                  BigShift32(bound))

\* one try of the loop of rollSpot, the generator having moved to state t3 and
\* returned dLat, dLon and (for the test of landBiasAccept) dAcc
RECURSIVE rollTries(_, _, _, _)
rollTry(bounds, mode, i, t3, dLat, dLon, dAcc) ==
  LET maxTries == IF mode = <<"p", "u", "b", "l", "i", "c", "i", "s", "h">> THEN 120 ELSE 40
      here == [lat |-> ScaleDraw(bounds.latMin, bounds.latMax, dLat),
               lon |-> ScaleDraw(bounds.lonMin, bounds.lonMax, dLon),
               tries |-> i + 1]
  IN  IF mode # <<"p", "u", "b", "l", "i", "c", "i", "s", "h">> THEN here
      ELSE IF landBiasAccept(bounds, dLat, dLon, dAcc) THEN here
      ELSE IF i + 1 >= maxTries THEN here
      ELSE rollTries(bounds, mode, t3, i + 1)

\* the loop of rollSpot from its try number i (0, 1, ...), the generator being
\* in state t: the rounded coordinates it ends with
rollTries(bounds, mode, t, i) ==
  LET t1 == Add32(t, MulberryStep)
      t2 == Add32(t1, MulberryStep)
  IN  CHOOSE r \in
        { rollTry(bounds, mode, i, t3, dLat, dLon, dAcc) :
            t3   \in {Add32(t2, MulberryStep)},
            dLat \in {mulberryOut(t1)},
            dLon \in {mulberryOut(t2)},
            dAcc \in {mulberryOut(Add32(t2, MulberryStep))} } : TRUE

\* part_000: rollSpot once its seed is known, with the number of values it
\* drew from its generator. With undefined bounds every coordinate is NaN and
\* no try is accepted (rng() < NaN is false), so a strict call makes all its
\* tries.
rollSpotBiasedFrom(countryCode, mode, rerolls, bounds, seed32) ==
  LET strict == mode = <<"p", "u", "b", "l", "i", "c", "i", "s", "h">>
  IN  CHOOSE r \in
        { [point |-> [country |-> bounds.name,
                      countryCode |-> countryCode,
                      mode |-> mode,
                      lat |-> drawn.lat,
                      lon |-> drawn.lon,
                      seed |-> countryCode \o <<"-">> \o mode \o <<"-">> \o toHex(seed32),
                      rerolls |-> rerolls],
           draws |-> IF strict THEN 3 * drawn.tries ELSE 2] :
          drawn \in {IF bounds.latMin = NaNCoord
                     THEN [lat |-> NaNCoord, lon |-> NaNCoord,
                           tries |-> IF strict THEN 120 ELSE 1]
                     ELSE rollTries(bounds, mode, seed32, 0)} } : TRUE

rollSpotBiasedRun(countryCode, mode, userSeed, rerolls) ==
  CHOOSE r \in
    { rollSpotBiasedFrom(countryCode, mode, rerolls, bounds, seed32) :
        bounds \in {BoundsOf(countryCode)},
        seed32 \in {hashStrToSeed(BaseString(countryCode, mode, userSeed, rerolls))} } : TRUE

rollSpotBiased(countryCode, mode, userSeed, rerolls) ==
  rollSpotBiasedRun(countryCode, mode, userSeed, rerolls).point

\* part_001: makeTileFromCenter as the runs carry it, the size and the area of
\* a tile of a whole number of meters (makeTile has the bounds and the corners)
makeTileFromCenter(lat, lon, sizeMeters) ==
  [sizeMeters |-> sizeMeters, areaM2 |-> sizeMeters * sizeMeters,
   center |-> [lat |-> lat, lon |-> lon]]

\* ------------------------------------------------ the tile, in IEEE doubles
\* A double of magnitude below 2^IntBits that is a multiple of 2^-FracBits is
\* kept exactly: its sign and the bits of its magnitude, most significant
\* first, IntBits of them before the binary point and FracBits after it.
IntBits == 9

FracBits == 80

\* the significand of a JavaScript number
Mantissa == 53

FxLen == IntBits + FracBits

Fx(neg, bits) == [neg |-> neg, bits |-> bits]

ZeroBits == [k \in 1..FxLen |-> 0]

NatBits(n, w) == [k \in 1..w |-> (n \div Pow2(w - k)) % 2]

\* the first n bits of rem / den after the binary point, and what is left
\* below them; by halves, the earlier bits first
RECURSIVE DivBitsRun(_, _, _)
RECURSIVE DivBitsThen(_, _, _)
DivBitsRun(rem, den, n) ==
  IF n = 0 THEN [bits |-> <<>>, rem |-> rem]
  ELSE IF n = 1 THEN [bits |-> <<(2 * rem) \div den>>, rem |-> (2 * rem) % den]
  ELSE CHOOSE r \in
         { DivBitsThen(left, den, n - (n \div 2)) : left \in {DivBitsRun(rem, den, n \div 2)} } : TRUE

DivBitsThen(left, den, n) ==
  CHOOSE r \in
    { [bits |-> left.bits \o right.bits, rem |-> right.rem] :
        right \in {DivBitsRun(left.rem, den, n)} } : TRUE

\* num / den to FracBits bits after the point, then one more element that
\* says whether anything is left below them
QuotBits(num, den) ==
  CHOOSE r \in
    { NatBits(num \div den, IntBits) \o q.bits \o <<IF q.rem = 0 THEN 0 ELSE 1>> :
        q \in {DivBitsRun(num % den, den, FracBits)} } : TRUE

\* the bits lo..hi of x + y + carry and the carry out of them; by halves, the
\* less significant bits (the later ones) first
RECURSIVE BitsAddRun(_, _, _, _, _)
RECURSIVE BitsAddThen(_, _, _, _, _)
BitsAddRun(x, y, lo, hi, carry) ==
  IF lo = hi
  THEN [bits |-> <<(x[lo] + y[lo] + carry) % 2>>, carry |-> (x[lo] + y[lo] + carry) \div 2]
  ELSE CHOOSE r \in
         { BitsAddThen(x, y, lo, (lo + hi) \div 2, low) :
             low \in {BitsAddRun(x, y, ((lo + hi) \div 2) + 1, hi, carry)} } : TRUE

BitsAddThen(x, y, lo, hi, low) ==
  CHOOSE r \in
    { [bits |-> high.bits \o low.bits, carry |-> high.carry] :
        high \in {BitsAddRun(x, y, lo, hi, low.carry)} } : TRUE

BitsAdd(x, y) ==
  CHOOSE r \in {BitsAddRun(a, b, 1, Len(a), 0).bits : a \in {x}, b \in {y}} : TRUE

\* the bits lo..hi of x - y - borrow and the borrow out of them
RECURSIVE BitsSubRun(_, _, _, _, _)
RECURSIVE BitsSubThen(_, _, _, _, _)
BitsSubRun(x, y, lo, hi, borrow) ==
  IF lo = hi
  THEN [bits |-> <<(x[lo] - y[lo] - borrow + 2) % 2>>,
        borrow |-> IF x[lo] - y[lo] - borrow < 0 THEN 1 ELSE 0]
  ELSE CHOOSE r \in
         { BitsSubThen(x, y, lo, (lo + hi) \div 2, low) :
             low \in {BitsSubRun(x, y, ((lo + hi) \div 2) + 1, hi, borrow)} } : TRUE

BitsSubThen(x, y, lo, hi, low) ==
  CHOOSE r \in
    { [bits |-> high.bits \o low.bits, borrow |-> high.borrow] :
        high \in {BitsSubRun(x, y, lo, hi, low.borrow)} } : TRUE

\* x - y for x >= y
BitsSub(x, y) ==
  CHOOSE r \in {BitsSubRun(a, b, 1, Len(a), 0).bits : a \in {x}, b \in {y}} : TRUE

BitsLess(x, y) ==
  \E k \in 1..Len(x) : x[k] < y[k] /\ \A j \in 1..(k - 1) : x[j] = y[j]

\* round to nearest, ties to even, at Mantissa significant bits: bs is an
\* exact magnitude of FxLen bits followed by the element DivBitsFrom appends
RoundBits(bs, top) ==
  LET last == top + Mantissa - 1
      kept == [k \in 1..FxLen |-> IF k <= last THEN bs[k] ELSE 0]
      rest == \E k \in (last + 2)..(FxLen + 1) : bs[k] = 1
      up   == bs[last + 1] = 1 /\ (rest \/ bs[last] = 1)
  IN  IF last >= FxLen THEN SubSeq(bs, 1, FxLen)
      ELSE IF up THEN BitsAdd(kept, [k \in 1..FxLen |-> IF k = last THEN 1 ELSE 0])
      ELSE kept

RoundDouble(bs) ==
  CHOOSE r \in
    { IF \A k \in 1..FxLen : b[k] = 0 THEN SubSeq(b, 1, FxLen)
      ELSE RoundBits(b, CHOOSE p \in 1..FxLen : b[p] = 1 /\ \A j \in 1..(p - 1) : b[j] = 0) :
        b \in {bs} } : TRUE

\* a + b of two doubles
DoubleAdd(a, b) ==
  CHOOSE r \in
    { IF x.neg = y.neg THEN Fx(x.neg, RoundDouble(BitsAdd(x.bits, y.bits) \o <<0>>))
      ELSE IF x.bits = y.bits THEN Fx(FALSE, ZeroBits)
      ELSE IF BitsLess(x.bits, y.bits)
           THEN Fx(y.neg, RoundDouble(BitsSub(y.bits, x.bits) \o <<0>>))
           ELSE Fx(x.neg, RoundDouble(BitsSub(x.bits, y.bits) \o <<0>>)) :
        x \in {a}, y \in {b} } : TRUE

\* a - b of two doubles
DoubleSub(a, b) == DoubleAdd(a, Fx(~b.neg, b.bits))

\* a < b
DoubleLess(a, b) ==
  \E x \in {a}, y \in {b} :
    IF x.neg # y.neg THEN x.neg /\ ~(x.bits = ZeroBits /\ y.bits = ZeroBits)
    ELSE IF x.neg THEN BitsLess(y.bits, x.bits) ELSE BitsLess(x.bits, y.bits)

\* a === b (-0 equals 0)
DoubleSame(a, b) == a.bits = b.bits /\ (a.neg = b.neg \/ a.bits = ZeroBits)

\* the double nearest to num / den, num an integer and den a positive one
DoubleOf(num, den) ==
  Fx(num < 0, RoundDouble(QuotBits(IF num < 0 THEN 0 - num ELSE num, den)))

\* the double a coordinate in millionths of a degree stands for (fmt6, line 12)
DoubleOfCoordinate(c) == DoubleOf(c, 1000000)

\* part_001 line 86
MetersPerDegree == 111320

\* A length in meters is a pair <<n, j>> for n / 2^j. part_001 line 86:
\* metersToLatDeg
metersToLatDeg(m) == DoubleOf(m[1], MetersPerDegree * Pow2(m[2]))

\* part_001 lines 87-90: metersToLonDeg. Math.cos is implementation-approximated
\* except at 0, where it is exactly 1: cos is the value it returned, in 1024ths,
\* at least 0.12 (a latitude within 83 degrees of the equator), so that
\* Math.max returns it and 111320 * cos is exact.
metersToLonDeg(m, cos) == DoubleOf(1024 * m[1], MetersPerDegree * cos * Pow2(m[2]))

\* the values Math.cos may return for a latitude, in 1024ths
CosineGrid == {123, 512, 819, 868, 1024}

Cosines(lat) == IF lat = 0 THEN {1024} ELSE CosineGrid \ {1024}

\* line 104: Number((sizeMeters * sizeMeters).toFixed(2)), in hundredths; the
\* product of n / 2^j with itself is exact, toFixed takes the nearest
\* hundredth and the larger one of two
areaM2(size) ==
  LET q == Pow2(2 * size[2])
  IN  Num(FALSE, (size[1] * size[1] * 100 + (q \div 2)) \div q, 2)

\* lines 92-113: makeTileFromCenter with the bounds and the corners, lat and
\* lon in millionths of a degree
makeTileSouthIsNorth(lat, lon, sizeMeters, cos) ==
  CHOOSE t \in
    { [sizeMeters |-> sizeMeters, areaM2 |-> areaM2(sizeMeters),
       center |-> [lat |-> la, lon |-> lo],
       bounds |-> [north |-> north, south |-> north, east |-> east, west |-> west],
       corners |-> [NW |-> [lat |-> north, lon |-> west],
                    NE |-> [lat |-> north, lon |-> east],
                    SW |-> [lat |-> north, lon |-> west],
                    SE |-> [lat |-> north, lon |-> east]]] :
        la \in {DoubleOfCoordinate(lat)}, lo \in {DoubleOfCoordinate(lon)},
        north \in {DoubleAdd(DoubleOfCoordinate(lat), metersToLatDeg(<<sizeMeters[1], sizeMeters[2] + 1>>))},
        east  \in {DoubleAdd(DoubleOfCoordinate(lon), metersToLonDeg(<<sizeMeters[1], sizeMeters[2] + 1>>, cos))},
        west  \in {DoubleSub(DoubleOfCoordinate(lon), metersToLonDeg(<<sizeMeters[1], sizeMeters[2] + 1>>, cos))} } : TRUE

makeTile(lat, lon, sizeMeters, cos) ==
  CHOOSE t \in
    { [sizeMeters |-> sizeMeters, areaM2 |-> areaM2(sizeMeters),
       center |-> [lat |-> la, lon |-> lo],
       bounds |-> [north |-> north, south |-> south, east |-> east, west |-> west],
       corners |-> [NW |-> [lat |-> north, lon |-> west],
                    NE |-> [lat |-> north, lon |-> east],
                    SW |-> [lat |-> south, lon |-> west],
                    SE |-> [lat |-> south, lon |-> east]]] :
        la \in {DoubleOfCoordinate(lat)}, lo \in {DoubleOfCoordinate(lon)},
        north \in {DoubleAdd(DoubleOfCoordinate(lat), metersToLatDeg(<<sizeMeters[1], sizeMeters[2] + 1>>))},
        south \in {DoubleSub(DoubleOfCoordinate(lat), metersToLatDeg(<<sizeMeters[1], sizeMeters[2] + 1>>))},
        east  \in {DoubleAdd(DoubleOfCoordinate(lon), metersToLonDeg(<<sizeMeters[1], sizeMeters[2] + 1>>, cos))},
        west  \in {DoubleSub(DoubleOfCoordinate(lon), metersToLonDeg(<<sizeMeters[1], sizeMeters[2] + 1>>, cos))} } : TRUE

\* ------------------------------------------------------ the land checks
Includes(s, w) ==
  \E k \in 1..(Len(s) - Len(w) + 1) : SubSeq(s, k, k + Len(w) - 1) = w

\* part_001 line 136
waterWords ==
  { <<"o", "c", "e", "a", "n">>,
    <<"s", "e", "a">>,
    <<"b", "a", "y">>,
    <<"s", "t", "r", "a", "i", "t">>,
    <<"c", "h", "a", "n", "n", "e", "l">>,
    <<"w", "a", "t", "e", "r">>,
    <<"r", "i", "v", "e", "r">>,
    <<"l", "a", "k", "e">>,
    <<"r", "e", "s", "e", "r", "v", "o", "i", "r">>,
    <<"r", "e", "e", "f">>,
    <<"c", "o", "a", "s", "t", "l", "i", "n", "e">>,
    <<"b", "e", "a", "c", "h">> }

\* public/app.js lines 104-106
waterTypes ==
  { <<"o", "c", "e", "a", "n">>,
    <<"s", "e", "a">>,
    <<"b", "a", "y">>,
    <<"s", "t", "r", "a", "i", "t">>,
    <<"c", "h", "a", "n", "n", "e", "l">>,
    <<"w", "a", "t", "e", "r">>,
    <<"r", "i", "v", "e", "r">>,
    <<"l", "a", "k", "e">>,
    <<"r", "e", "s", "e", "r", "v", "o", "i", "r">>,
    <<"r", "e", "e", "f">> }

S_Unknown == <<"U", "n", "k", "n", "o", "w", "n">>

\* reverseCheckNominatim without the test of addr.country
reverseCheckNominatimNoCountry(data) ==
  LET type     == toLowerCase(data.type)
      category == toLowerCase(data.category)
      display  == Trim(data.display_name)
      addr     == data.address
      looksWater ==
        \/ \E w \in waterWords : Includes(type, w)
        \/ \E w \in waterWords : Includes(category, w)
      hasRoadish  == addr \cap {"road", "pedestrian", "footway", "cycleway"} # {}
      hasPlaceish == addr \cap {"city", "town", "village", "hamlet", "suburb",
                                "neighbourhood"} # {}
      hasCountry  == "country" \in addr
  IN  [ok |-> ~looksWater /\ (hasRoadish \/ hasPlaceish \/ Len(display) > 12),
       looksWater |-> looksWater,
       place |-> IF display # <<>> THEN display ELSE S_Unknown,
       type |-> type,
       category |-> category,
       signals |-> [hasRoadish |-> hasRoadish, hasPlaceish |-> hasPlaceish,
                    hasCountry |-> hasCountry]]

\* part_001 lines 131-155: reverseCheckNominatim on the parsed response
reverseCheckNominatim(data) ==
  LET type     == toLowerCase(data.type)
      category == toLowerCase(data.category)
      display  == Trim(data.display_name)
      addr     == data.address
      looksWater ==
        \/ \E w \in waterWords : Includes(type, w)
        \/ \E w \in waterWords : Includes(category, w)
        \/ (category = <<"n", "a", "t", "u", "r", "a", "l">> /\ (type = <<"w", "a", "t", "e", "r">> \/ type = <<"c", "o", "a", "s", "t", "l", "i", "n", "e">>))
      hasRoadish  == addr \cap {"road", "pedestrian", "footway", "cycleway"} # {}
      hasPlaceish == addr \cap {"city", "town", "village", "hamlet", "suburb",
                                "neighbourhood"} # {}
      hasCountry  == "country" \in addr
  IN  [ok |-> ~looksWater /\ hasCountry /\ (hasRoadish \/ hasPlaceish \/ Len(display) > 12),
       looksWater |-> looksWater,
       place |-> IF display # <<>> THEN display ELSE S_Unknown,
       type |-> type,
       category |-> category,
       signals |-> [hasRoadish |-> hasRoadish, hasPlaceish |-> hasPlaceish,
                    hasCountry |-> hasCountry]]

\* public/app.js lines 100-126: reverseCheck on the parsed response
reverseCheck(data) ==
  LET type     == toLowerCase(data.type)
      category == toLowerCase(data.category)
      looksWater ==
        \/ type \in waterTypes
        \/ Includes(category, <<"w", "a", "t", "e", "r">>)
        \/ Includes(category, <<"s", "e", "a">>)
        \/ Includes(type, <<"o", "c", "e", "a", "n">>)
        \/ Includes(type, <<"s", "e", "a">>)
      display == Trim(data.display_name)
  IN  [ok |-> ~looksWater /\ Len(display) >= 6,
       looksWater |-> looksWater,
       place |-> IF display # <<>> THEN display ELSE S_Unknown,
       rawType |-> IF type # <<>> THEN type ELSE <<"u", "n", "k", "n", "o", "w", "n">>,
       rawCategory |-> IF category # <<>> THEN category ELSE <<"u", "n", "k", "n", "o", "w", "n">>]

\* responses of the reverse-geocoding service (type, category, display_name and
\* the keys present in address)
NominatimData ==
  { [type |-> <<"r", "e", "s", "i", "d", "e", "n", "t", "i", "a", "l">>, category |-> <<"h", "i", "g", "h", "w", "a", "y">>,
     display_name |-> <<"M", "a", "i", "n", " ", "R", "d", ",", " ", "N", "e", "l", "s", "o", "n">>, address |-> {"road", "city", "country"}],
    [type |-> <<"b", "a", "y">>, category |-> <<"n", "a", "t", "u", "r", "a", "l">>,
     display_name |-> <<"G", "o", "l", "d", "e", "n", " ", "B", "a", "y">>, address |-> {"country"}],
    [type |-> <<"p", "e", "a", "k">>, category |-> <<"n", "a", "t", "u", "r", "a", "l">>,
     display_name |-> <<" ", "M", "t", " ", "O", "w", "e", "n", " ">>, address |-> {"country"}],
    [type |-> <<"a", "d", "m", "i", "n", "i", "s", "t", "r", "a", "t", "i", "v", "e">>, category |-> <<"b", "o", "u", "n", "d", "a", "r", "y">>,
     display_name |-> <<"M", "a", "i", "n", " ", "R", "d", ",", " ", "N", "e", "l", "s", "o", "n">>, address |-> {"city"}],
    [type |-> <<"B", "e", "a", "c", "h">>, category |-> <<"n", "a", "t", "u", "r", "a", "l">>,
     display_name |-> <<"M", "a", "i", "n", " ", "R", "d", ",", " ", "N", "e", "l", "s", "o", "n">>, address |-> {"village", "country"}],
    [type |-> <<>>, category |-> <<>>, display_name |-> <<>>, address |-> {}] }

\* element counts the Overpass service may report
OverpassCounts == {0, 1}

\* ----------------------------------------------------------------- state
VARIABLES
  sessions,    \* Stripe: the checkout sessions, session k has id cs_k
  piMeta,      \* Stripe: metadata of the payment intent of session k
  createResp,  \* the answer of the latest create request
  creates,     \* how many create requests were received
  call,        \* the deliver invocations: position, locals, answer
  mails,       \* bag of the messages sendMail accepted: [to, k] for session k
  g,           \* one run of rollUntilGood
  l,           \* one run of rollUntilLikelyLand
  vresp,       \* the answer of the latest verify request
  gen,         \* the calls of the point generator made so far
  page,        \* the generation page (pageIndex)
  shop,        \* the checkout page (pageCheckout) and localStorage
  geo,         \* one call of makeTileFromCenter: its arguments and its result
  sweep,      \* one series of rollCenter calls: the attempt numbers 1, 2, ... in turn
  lookup       \* one reverse lookup: the response and what the place-type check made of it

vars == <<sessions, piMeta, createResp, creates, call, mails, g, l, vresp, gen, page, shop, geo, sweep, lookup>>

Calls == 1..MaxCalls

\* ---------------------------------------------------- request inputs
S_NZ == <<"N", "Z">>

S_publicish == <<"p", "u", "b", "l", "i", "c", "i", "s", "h">>

S_anywhere == <<"a", "n", "y", "w", "h", "e", "r", "e">>

S_yes == <<"y", "e", "s">>

S_no == <<"n", "o">>

S_one == <<"1">>

EmailPlain == <<"a", "@", "b", ".", "c">>

EmailPadded == <<" ">> \o EmailPlain \o <<" ">>

EmailNoDot == <<"a", "@", "b">>

\* a well-formed address of EmailMax + 1 characters: 112 x "a", then @b.cd.efg
EmailLong == [k \in 1..(EmailMax - 8) |-> "a"]
               \o <<"@", "b", ".", "c", "d", ".", "e", "f", "g">>

BaseBody ==
  [country |-> Str(S_NZ), mode |-> Str(S_anywhere),
   seed |-> Str(<<"N", "Z", "-", "a", "-", "1", "f">>),
   lat |-> Str(<<"-", "4", "1", ".", "5">>), lon |-> Str(<<"1", "7", "4">>),
   tile_m |-> Str(S_one), email |-> Undefined, email_consent |-> Undefined]

\* (email, email_consent) pairs a create request may carry
EmailCases ==
  { <<Undefined, Undefined>>,
    <<Str(EmailPlain), Str(S_no)>>,
    <<Str(EmailPlain), Str(S_yes)>>,
    <<Str(EmailPadded), Str(<<" ", "Y", "E", "S">>)>>,
    <<Str(EmailNoDot), Str(S_yes)>>,
    <<Undefined, Str(S_yes)>>,
    <<Str(EmailLong), Str(S_yes)>> }

\* (lat, lon, tile_m) triples a create request may carry
CoordCases ==
  { <<BaseBody.lat, BaseBody.lon, BaseBody.tile_m>>,
    <<Str(<<"9", "1">>), BaseBody.lon, BaseBody.tile_m>>,
    <<Str(<<"a", "b", "c">>), BaseBody.lon, BaseBody.tile_m>>,
    <<BaseBody.lat, Str(<<"-", "1", "8", "0", ".", "5">>), BaseBody.tile_m>>,
    <<BaseBody.lat, BaseBody.lon, Str(<<"0">>)>>,
    <<BaseBody.lat, BaseBody.lon, Str(<<"1", "0", "0", "1">>)>>,
    <<Undefined, Undefined, Undefined>> }

CreateBodies ==
  { [BaseBody EXCEPT !.email = e[1], !.email_consent = e[2]] : e \in EmailCases }
  \cup
  { [BaseBody EXCEPT !.lat = c[1], !.lon = c[2], !.tile_m = c[3]] : c \in CoordCases }

\* create requests that carry all six fields of the tile: as the checkout
\* page writes them, and as another client may write them (a tile_m with a
\* fraction of zero, a latitude with seven decimals, a seed and a country
\* with spaces around them)
DirectBodies ==
  { BaseBody,
    [BaseBody EXCEPT !.lat = Str(<<"3", "5", ".", "5">>),
                     !.lon = Str(<<"1", "3", "9", ".", "2", "5">>),
                     !.tile_m = Str(<<"1", "0">>),
                     !.country = Str(<<"J", "a", "p", "a", "n">>),
                     !.seed = Str(<<"J", "P", "-", "a", "-", "1", "f">>)],
    [BaseBody EXCEPT !.tile_m = Str(<<"1", ".", "0">>)],
    [BaseBody EXCEPT !.lat = Str(<<"-", "4", "1", ".", "1", "2", "3", "4", "5", "6", "7">>)],
    [BaseBody EXCEPT !.seed = Str(<<" ", "N", "Z", "-", "a", "-", "1", "f", " ">>)],
    [BaseBody EXCEPT !.country = Str(<<"N", "Z", " ">>), !.mode = Str(S_publicish)],
    [BaseBody EXCEPT !.email = Str(EmailPlain), !.email_consent = Str(S_yes)],
    [BaseBody EXCEPT !.lat = Str(<<"9", "1">>)] }

CsId(k) == <<"c", "s", "_", DigitChars[k + 1]>>

\* session_id values a deliver request may carry
SessionIdInputs ==
  { Undefined, Str(<<"x">>), Str(<<"c", "s", "_", "9">>) }
  \cup { Str(CsId(k)) : k \in 1..MaxCreates }
  \cup { Str(<<" ">> \o CsId(1)) }

\* ------------------------------------------------------ stripe.js: create
Resp(status, msg, delivered) ==
  [status |-> status, msg |-> msg, delivered |-> delivered]

NoResp == Resp(0, "none", FALSE)

NoMeta == [certificate_emailed |-> <<>>, certificate_email_to |-> <<>>]

\* asStr(v, max) || dflt
asStrOr(v, max, dflt) == IF asStr(v, max) # <<>> THEN asStr(v, max) ELSE dflt

\* lines 208-210: the e-mail and the normalised consent of a create request
CreateEmail(body) == asStr(OrElse(body.email, Str(<<>>)), EmailMax)

CreateConsent(body) ==
  IF toLowerCase(asStr(OrElse(body.email_consent, Str(S_no)), ConsentMax)) = S_yes
  THEN S_yes ELSE S_no

\* lines 212-231: the three validations; "" when the request passes them
CreateError(body) ==
  LET latNum  == Number(asStrOr(body.lat, 40, <<>>))
      lonNum  == Number(asStrOr(body.lon, 40, <<>>))
      tileNum == Number(asStrOr(body.tile_m, 12, S_one))
  IN  IF \/ ~isFinite(latNum)
         \/ ~isFinite(lonNum)
         \/ AbsGreater(latNum, 90)
         \/ AbsGreater(lonNum, 180)
      THEN "Invalid coordinates"
      ELSE IF ~isFinite(tileNum) \/ NonPositive(tileNum) \/ AbsGreater(tileNum, 1000)
      THEN "Invalid tile_m"
      ELSE IF /\ CreateConsent(body) = S_yes
              /\ (CreateEmail(body) = <<>> \/ ~looksLikeEmail(CreateEmail(body)))
      THEN "Email consent is yes but email is missing/invalid"
      ELSE ""

\* lines 244-253: the metadata of the session that create opens
CreateMetadata(body) ==
  [country |-> asStrOr(body.country, 80, S_NZ),
   mode    |-> asStrOr(body.mode, 40, S_publicish),
   seed    |-> asStr(body.seed, 120),
   lat     |-> toFixed6(Number(asStrOr(body.lat, 40, <<>>))),
   lon     |-> toFixed6(Number(asStrOr(body.lon, 40, <<>>))),
   tile_m  |-> NumToString(Number(asStrOr(body.tile_m, 12, S_one))),
   email   |-> IF CreateConsent(body) = S_yes THEN CreateEmail(body) ELSE <<>>,
   email_consent |-> CreateConsent(body)]

\* The pure part of create, tabulated over the requests of the model.
CreateOutcome ==
  [body \in CreateBodies \cup DirectBodies |->
     [error |-> CreateError(body), metadata |-> CreateMetadata(body)]]

\* action create. The session keeps the request that opened it (req) as history.
Create(body) ==
  /\ creates < MaxCreates
  /\ creates' = creates + 1
  /\ \/ /\ CreateOutcome[body].error # ""
        /\ createResp' = Resp(400, CreateOutcome[body].error, FALSE)
        /\ UNCHANGED <<sessions, piMeta>>
     \/ /\ CreateOutcome[body].error = ""
        /\ sessions' = Append(sessions,
              [payment_status |-> "unpaid", metadata |-> CreateOutcome[body].metadata,
               payment_intent |-> FALSE,
               req |-> body])
        /\ piMeta' = Append(piMeta, NoMeta)
        /\ createResp' = Resp(200, "url", FALSE)
     \/ /\ CreateOutcome[body].error = ""
        /\ createResp' = Resp(500, "Server error", FALSE)
        /\ UNCHANGED <<sessions, piMeta>>
  /\ UNCHANGED <<call, mails, g, l, vresp, gen, page, shop, geo, sweep, lookup>>

\* Stripe, outside the function: the payer completes checkout. A session paid in
\* full by a promotion code carries no payment intent.
Pay(k, withIntent) ==
  /\ k \in 1..Len(sessions)
  /\ sessions[k].payment_status = "unpaid"
  /\ sessions' = [sessions EXCEPT ![k].payment_status = "paid",
                                  ![k].payment_intent = withIntent]
  /\ UNCHANGED <<piMeta, createResp, creates, call, mails, g, l, vresp, gen, page, shop, geo, sweep, lookup>>

\* ----------------------------------------------------- stripe.js: deliver
\* One invocation of deliver. k is the session it retrieved (0: none); after and
\* sent are history: whether the invocation began after another one on the same
\* session had answered that it sent the mail, and how many messages it sent.
IdleCall ==
  [pc |-> "idle", k |-> 0, to |-> <<>>, snap |-> NoMeta, resp |-> NoResp,
   after |-> FALSE, sent |-> 0]

Answer(c, r) == [call EXCEPT ![c].pc = "done", ![c].resp = r]

\* deliver without its test of the certificate_emailed marker
DeliverDecisionNoMarker(sess, pim) ==
  LET to == asStr(Str(sess.metadata.email), EmailMax)
  IN  IF sess.payment_status # "paid"
      THEN Resp(200, "Payment not confirmed.", FALSE)
      ELSE IF toLowerCase(sess.metadata.email_consent) # S_yes
      THEN Resp(200, "Email delivery not opted in.", FALSE)
      ELSE IF to = <<>> \/ ~looksLikeEmail(to)
      THEN Resp(200, "Missing/invalid email in metadata.", FALSE)
      ELSE IF ~sess.payment_intent
      THEN Resp(500, "Missing payment_intent.", FALSE)
      ELSE NoResp

\* lines 292-315: what deliver decides from the retrieved session and the
\* metadata of its expanded payment intent; NoResp means "go on and send".
DeliverDecision(sess, pim) ==
  LET to == asStr(Str(sess.metadata.email), EmailMax)
  IN  IF sess.payment_status # "paid"
      THEN Resp(200, "Payment not confirmed.", FALSE)
      ELSE IF toLowerCase(sess.metadata.email_consent) # S_yes
      THEN Resp(200, "Email delivery not opted in.", FALSE)
      ELSE IF to = <<>> \/ ~looksLikeEmail(to)
      THEN Resp(200, "Missing/invalid email in metadata.", FALSE)
      ELSE IF ~sess.payment_intent
      THEN Resp(500, "Missing payment_intent.", FALSE)
      ELSE IF toLowerCase(pim.certificate_emailed) = S_yes
      THEN Resp(200, "Already emailed (idempotent).", TRUE)
      ELSE NoResp

\* lines 282-315: the request is parsed, the session is retrieved with its
\* payment intent expanded (one Stripe call), and the checks run on that copy.
DeliverRetrieve(c, sidIn) ==
  /\ call[c].pc = "idle"
  /\ LET session_id == asStr(sidIn, SessionIdMax)
         found      == {k \in 1..Len(sessions) : CsId(k) = session_id}
     IN  \/ /\ session_id = <<>> \/ ~startsWithCs(session_id)
            /\ call' = Answer(c, Resp(400, "Missing/invalid session_id", FALSE))
         \/ /\ startsWithCs(session_id)
            /\ call' = Answer(c, Resp(500, "Server error", FALSE))
         \/ /\ found # {}
            /\ LET k == CHOOSE j \in found : TRUE
                   d == DeliverDecision(sessions[k], piMeta[k])
                   after == \E c2 \in Calls : /\ call[c2].pc = "done"
                                               /\ call[c2].resp.msg = "sent"
                                               /\ call[c2].k = k
               IN  call' =
                     IF d # NoResp
                     THEN [call EXCEPT ![c].pc = "done", ![c].resp = d, ![c].k = k,
                                       ![c].after = after]
                     ELSE [call EXCEPT ![c] =
                             [pc |-> "pdf", k |-> k,
                              to |-> asStr(Str(sessions[k].metadata.email), EmailMax),
                              snap |-> piMeta[k], resp |-> NoResp,
                              after |-> after, sent |-> 0]]
  /\ UNCHANGED <<sessions, piMeta, createResp, creates, mails, g, l, vresp, gen, page, shop, geo, sweep, lookup>>

\* line 317: await generateCertificatePDFBuffer(meta)
DeliverPdf(c) ==
  /\ call[c].pc = "pdf"
  /\ \/ call' = [call EXCEPT ![c].pc = "send"]
     \/ call' = Answer(c, Resp(500, "Server error", FALSE))
  /\ UNCHANGED <<sessions, piMeta, createResp, creates, mails, g, l, vresp, gen, page, shop, geo, sweep, lookup>>

\* deliver writing the marker before it calls sendMail
DeliverSendMarksFirst(c) ==
  /\ call[c].pc = "send"
  /\ piMeta' = [piMeta EXCEPT ![call[c].k] =
                  [call[c].snap EXCEPT !.certificate_emailed = S_yes,
                                       !.certificate_email_to = call[c].to]]
  /\ \/ /\ mails' = mails (+) SetToBag({[to |-> call[c].to, k |-> call[c].k]})
        /\ call' = [call EXCEPT ![c].pc = "update", ![c].sent = @ + 1]
     \/ /\ call' = Answer(c, Resp(500, "Server error", FALSE))
        /\ UNCHANGED mails
  /\ UNCHANGED <<sessions, createResp, creates, g, l, vresp, gen, page, shop, geo, sweep, lookup>>

\* lines 350-359: makeGmailTransporter, await transporter.sendMail
DeliverSend(c) ==
  /\ call[c].pc = "send"
  /\ \/ /\ mails' = mails (+) SetToBag({[to |-> call[c].to, k |-> call[c].k]})
        /\ call' = [call EXCEPT ![c].pc = "update", ![c].sent = @ + 1]
     \/ /\ call' = Answer(c, Resp(500, "Server error", FALSE))
        /\ UNCHANGED mails
  /\ UNCHANGED <<sessions, piMeta, createResp, creates, g, l, vresp, gen, page, shop, geo, sweep, lookup>>

\* lines 362-371: await stripe.paymentIntents.update, then the answer
\* (which carries no message: "sent" stands for it here)
DeliverUpdate(c) ==
  /\ call[c].pc = "update"
  /\ \/ /\ piMeta' = [piMeta EXCEPT ![call[c].k] =
                         [call[c].snap EXCEPT !.certificate_emailed = S_yes,
                                              !.certificate_email_to = call[c].to]]
        /\ call' = Answer(c, Resp(200, "sent", TRUE))
     \/ /\ call' = Answer(c, Resp(500, "Server error", FALSE))
        /\ UNCHANGED piMeta
  /\ UNCHANGED <<sessions, createResp, creates, mails, g, l, vresp, gen, page, shop, geo, sweep, lookup>>

\* ------------------------------------------------ part_001: rollUntilGood
Null == <<>>

Some(x) == <<x>>

NoNom == <<>>

NoRoads == [state |-> "absent", count |-> 0]

\* the values of check that strongLandCheck and rollUntilGood build
Check(ok, level, place, nom, roads) ==
  [ok |-> ok, level |-> level, place |-> place, nom |-> nom, roads |-> roads]

S_LookupUnavailable == <<"L", "o", "o", "k", "u", "p", " ", "u", "n", "a", "v", "a", "i", "l", "a", "b", "l", "e">>

\* crypto.randomUUID()
UserSeeds ==
  { <<"3", "f", "2", "b", "8", "c", "1", "e", "-", "9", "a", "4", "d", "-", "4", "e", "7", "b", "-", "8", "c", "2", "a", "-", "1", "d", "5", "e", "6", "f", "7", "a", "8", "b", "9", "c">>,
    <<"b", "7", "e", "1", "d", "2", "c", "3", "-", "0", "f", "4", "a", "-", "4", "b", "6", "c", "-", "9", "d", "8", "e", "-", "7", "f", "6", "a", "5", "b", "4", "c", "3", "d", "2", "e">> }

CountryInputs == {<<"N", "Z">>, <<"X", "X">>}

ModeInputs == {S_publicish, S_anywhere}

TileInputs == {1}

\* rollCenter over the arguments that the runs of the model pass to it,
\* computed once
GeneratorArgs ==
  CountryInputs \X ModeInputs \X UserSeeds \X (1..(MaxAttemptsBound + 1))

RECURSIVE CentersOver(_)
CentersOver(args) ==
  LET a == CHOOSE x \in args : TRUE
      p == rollCenter(a[1], a[2], a[3], a[4])
  IN  IF args = {a} THEN a :> p ELSE (a :> p) @@ CentersOver(args \ {a})

Centers == CentersOver(GeneratorArgs)

\* the locals of rollUntilGood at its first loop test, and the history of the
\* run: the attempt numbers derived, the outcome of each finished check and the
\* fetches issued. pc is "threw" when an exception leaves the function.
GStart(countryCode, mode, tileMeters, maxAttempts, userSeed) ==
  [pc |-> "loop", countryCode |-> countryCode, mode |-> mode,
   tileMeters |-> tileMeters, maxAttempts |-> maxAttempts, userSeed |-> userSeed,
   i |-> 1, best |-> Null, center |-> Null, nom |-> NoNom, result |-> Null,
   derived |-> <<>>, checked |-> <<>>, fetches |-> <<>>]

IdleG ==
  [GStart(<<"N", "Z">>, S_anywhere, 1, 0, CHOOSE u \in UserSeeds : TRUE)
     EXCEPT !.pc = "idle"]

\* the loop of rollUntilGood going on without awaiting strongLandCheck
GDeriveNoAwait ==
  /\ g.pc \in {"loop", "nominatim", "overpass"}
  /\ g.i <= g.maxAttempts
  /\ g' = [g EXCEPT !.pc = "nominatim",
                    !.center = Some(rollCenter(g.countryCode, g.mode, g.userSeed, g.i)),
                    !.derived = Append(@, g.i),
                    !.fetches = Append(@, [svc |-> "nominatim", i |-> g.i])]
  /\ UNCHANGED <<sessions, piMeta, createResp, creates, call, mails, l, vresp, gen, page, shop, geo, sweep, lookup>>

\* the loop of rollUntilGood without its test i <= maxAttempts
GDeriveNoTest ==
  /\ g.pc = "loop"
  /\ g' = [g EXCEPT !.pc = "nominatim",
                    !.center = Some(rollCenter(g.countryCode, g.mode, g.userSeed, g.i)),
                    !.derived = Append(@, g.i),
                    !.fetches = Append(@, [svc |-> "nominatim", i |-> g.i])]
  /\ UNCHANGED <<sessions, piMeta, createResp, creates, call, mails, l, vresp, gen, page, shop, geo, sweep, lookup>>

\* lines 207-213: the loop test, rollCenter, makeTileFromCenter, and the call
\* of strongLandCheck up to the fetch of reverseCheckNominatim
GDerive ==
  /\ g.pc = "loop"
  /\ g.i <= g.maxAttempts
  /\ g' = [g EXCEPT !.pc = "nominatim",
                    !.center = Some(Centers[<<g.countryCode, g.mode, g.userSeed, g.i>>]),
                    !.derived = Append(@, g.i),
                    !.fetches = Append(@, [svc |-> "nominatim", i |-> g.i])]
  /\ UNCHANGED <<sessions, piMeta, createResp, creates, call, mails, l, vresp, gen, page, shop, geo, sweep, lookup>>

\* rollUntilGood returning only outside strict mode: a passed check goes on
GAfterCheckGoesOn(check) ==
  LET c    == g.center[1]
      spot == [center |-> c,
               tile |-> makeTileFromCenter(c.lat, c.lon, g.tileMeters),
               check |-> check]
      kept == [g EXCEPT !.best = Some(spot), !.nom = NoNom,
                        !.checked = Append(@, [ok |-> check.ok, level |-> check.level])]
  IN  IF g.mode # S_publicish
      THEN [kept EXCEPT !.pc = "returned", !.result = Some(spot)]
      ELSE [kept EXCEPT !.pc = "loop", !.i = @ + 1]

\* lines 218-222: spot, best, and the two returns
GAfterCheck(check) ==
  LET c    == g.center[1]
      spot == [center |-> c,
               tile |-> makeTileFromCenter(c.lat, c.lon, g.tileMeters),
               check |-> check]
      kept == [g EXCEPT !.best = Some(spot), !.nom = NoNom,
                        !.checked = Append(@, [ok |-> check.ok, level |-> check.level])]
  IN  IF g.mode # S_publicish \/ check.ok
      THEN [kept EXCEPT !.pc = "returned", !.result = Some(spot)]
      ELSE [kept EXCEPT !.pc = "loop", !.i = @ + 1]

\* rollUntilGood without its try/catch: the exception leaves the function
GNominatimFailUncaught ==
  /\ g.pc = "nominatim"
  /\ g' = [g EXCEPT !.pc = "threw"]
  /\ UNCHANGED <<sessions, piMeta, createResp, creates, call, mails, l, vresp, gen, page, shop, geo, sweep, lookup>>

\* the catch of rollUntilGood with ok: false in every mode
GNominatimFailNotOk ==
  /\ g.pc = "nominatim"
  /\ g' = GAfterCheck(Check(FALSE, "error", S_LookupUnavailable, NoNom, NoRoads))
  /\ UNCHANGED <<sessions, piMeta, createResp, creates, call, mails, l, vresp, gen, page, shop, geo, sweep, lookup>>

\* the fetch of reverseCheckNominatim rejects, answers non-2xx, or its body is
\* no JSON: strongLandCheck throws and rollUntilGood catches (lines 214-216)
GNominatimFail ==
  /\ g.pc = "nominatim"
  /\ g' = GAfterCheck(Check(g.mode # S_publicish, "error", S_LookupUnavailable,
                            NoNom, NoRoads))
  /\ UNCHANGED <<sessions, piMeta, createResp, creates, call, mails, l, vresp, gen, page, shop, geo, sweep, lookup>>

\* strongLandCheck without its test of mode: the strict checks in every mode
GNominatimReplyAlwaysStrict(data) ==
  /\ g.pc = "nominatim"
  /\ LET nom == reverseCheckNominatim(data)
     IN  g' = IF ~nom.ok
              THEN GAfterCheck(Check(FALSE, "nominatim", nom.place, Some(nom), NoRoads))
              ELSE [g EXCEPT !.pc = "overpass", !.nom = Some(nom),
                             !.fetches = Append(@, [svc |-> "overpass", i |-> g.i])]
  /\ UNCHANGED <<sessions, piMeta, createResp, creates, call, mails, l, vresp, gen, page, shop, geo, sweep, lookup>>

\* the reverse lookup answers: strongLandCheck lines 183-194
GNominatimReply(data) ==
  /\ g.pc = "nominatim"
  /\ LET nom == reverseCheckNominatim(data)
     IN  g' = IF g.mode # S_publicish
              THEN GAfterCheck(Check(TRUE, "lite", nom.place, Some(nom), NoRoads))
              ELSE IF ~nom.ok
              THEN GAfterCheck(Check(FALSE, "nominatim", nom.place, Some(nom), NoRoads))
              ELSE [g EXCEPT !.pc = "overpass", !.nom = Some(nom),
                             !.fetches = Append(@, [svc |-> "overpass", i |-> g.i])]
  /\ UNCHANGED <<sessions, piMeta, createResp, creates, call, mails, l, vresp, gen, page, shop, geo, sweep, lookup>>

\* the catch of strongLandCheck treating the failed call as a negative result
GOverpassFailRejects ==
  /\ g.pc = "overpass"
  /\ g' = GAfterCheck(Check(FALSE, "overpass", g.nom[1].place, g.nom,
                            [state |-> "error", count |-> 0]))
  /\ UNCHANGED <<sessions, piMeta, createResp, creates, call, mails, l, vresp, gen, page, shop, geo, sweep, lookup>>

\* overpassHasHighwayNearby throws: strongLandCheck lines 197-199
GOverpassFail ==
  /\ g.pc = "overpass"
  /\ g' = GAfterCheck(Check(g.nom[1].ok, "fallback", g.nom[1].place, g.nom,
                            [state |-> "error", count |-> 0]))
  /\ UNCHANGED <<sessions, piMeta, createResp, creates, call, mails, l, vresp, gen, page, shop, geo, sweep, lookup>>

\* strongLandCheck without its test of roads.ok: level "strong" for any count
GOverpassReplyAcceptsNone(count) ==
  /\ g.pc = "overpass"
  /\ g' = GAfterCheck(Check(TRUE, "strong", g.nom[1].place, g.nom,
                            [state |-> "result", count |-> count]))
  /\ UNCHANGED <<sessions, piMeta, createResp, creates, call, mails, l, vresp, gen, page, shop, geo, sweep, lookup>>

\* overpassHasHighwayNearby answers with count elements: lines 195-196
GOverpassReply(count) ==
  /\ g.pc = "overpass"
  /\ g' = GAfterCheck(Check(count > 0, IF count > 0 THEN "strong" ELSE "overpass",
                            g.nom[1].place, g.nom,
                            [state |-> "result", count |-> count]))
  /\ UNCHANGED <<sessions, piMeta, createResp, creates, call, mails, l, vresp, gen, page, shop, geo, sweep, lookup>>

\* the end of rollUntilGood starting the loop over
GExhaustRestarts ==
  /\ g.pc = "loop"
  /\ g.i > g.maxAttempts
  /\ g' = [g EXCEPT !.i = 1]
  /\ UNCHANGED <<sessions, piMeta, createResp, creates, call, mails, l, vresp, gen, page, shop, geo, sweep, lookup>>

\* the end of rollUntilGood returning best as it was checked
GExhaustKeepsCheck ==
  /\ g.pc = "loop"
  /\ g.i > g.maxAttempts
  /\ g' = [g EXCEPT !.pc = "returned", !.result = g.best]
  /\ UNCHANGED <<sessions, piMeta, createResp, creates, call, mails, l, vresp, gen, page, shop, geo, sweep, lookup>>

\* lines 225-228: the loop ended without a return
GExhaust ==
  /\ g.pc = "loop"
  /\ g.i > g.maxAttempts
  /\ g' = [g EXCEPT !.pc = "returned",
                    !.result = IF g.best = Null THEN Null
                               ELSE Some([g.best[1] EXCEPT !.check.ok = FALSE,
                                                           !.check.level = "exhausted"])]
  /\ UNCHANGED <<sessions, piMeta, createResp, creates, call, mails, l, vresp, gen, page, shop, geo, sweep, lookup>>

\* ----------------------------------- public/app.js: rollUntilLikelyLand
NoCheck == <<>>

\* rollSpot over the arguments that the runs of the model pass to it
RECURSIVE SpotsOver(_)
SpotsOver(args) ==
  LET a == CHOOSE x \in args : TRUE
      p == rollSpot(a[1], a[2], a[3], a[4])
  IN  IF args = {a} THEN a :> p ELSE (a :> p) @@ SpotsOver(args \ {a})

Spots == SpotsOver(GeneratorArgs)

LStart(countryCode, mode, maxAttempts, userSeed) ==
  [pc |-> "loop", countryCode |-> countryCode, mode |-> mode,
   maxAttempts |-> maxAttempts, userSeed |-> userSeed,
   i |-> 1, spot |-> Null, check |-> NoCheck, result |-> Null,
   derived |-> <<>>, checked |-> <<>>, fetches |-> <<>>]

IdleL ==
  [LStart(<<"N", "Z">>, S_anywhere, 0, CHOOSE u \in UserSeeds : TRUE)
     EXCEPT !.pc = "idle"]

\* lines 134-138: the loop test, rollSpot, and the fetch of reverseCheck
LDerive ==
  /\ l.pc = "loop"
  /\ l.i <= l.maxAttempts
  /\ l' = [l EXCEPT !.pc = "reverse",
                    !.spot = Some(Spots[<<l.countryCode, l.mode, l.userSeed, l.i>>]),
                    !.derived = Append(@, l.i),
                    !.fetches = Append(@, [svc |-> "nominatim", i |-> l.i])]
  /\ UNCHANGED <<sessions, piMeta, createResp, creates, call, mails, g, vresp, gen, page, shop, geo, sweep, lookup>>

\* return { spot, check }
LReturned(run) ==
  [run EXCEPT !.pc = "returned",
              !.result = Some([spot |-> run.spot, check |-> run.check])]

\* lines 138-140: the lookup answers; at is the attempt the check was made for
LReverseReply(data) ==
  /\ l.pc = "reverse"
  /\ LET check == reverseCheck(data) @@ [at |-> l.i]
         kept  == [l EXCEPT !.check = Some(check),
                           !.checked = Append(@, [ok |-> check.ok, level |-> "reply"])]
     IN  l' = IF l.mode # S_publicish \/ check.ok
              THEN LReturned(kept)
              ELSE [kept EXCEPT !.pc = "loop", !.i = @ + 1]
  /\ UNCHANGED <<sessions, piMeta, createResp, creates, call, mails, g, vresp, gen, page, shop, geo, sweep, lookup>>

\* lines 141-147: the lookup throws
LReverseFail ==
  /\ l.pc = "reverse"
  /\ LET kept == [l EXCEPT !.checked = Append(@, [ok |-> FALSE, level |-> "error"])]
     IN  l' = IF l.i >= 3
              THEN LReturned([kept EXCEPT !.check =
                     Some([ok |-> FALSE, looksWater |-> FALSE,
                           place |-> S_LookupUnavailable,
                           rawType |-> <<>>, rawCategory |-> <<>>, at |-> l.i])])
              ELSE [kept EXCEPT !.pc = "loop", !.i = @ + 1]
  /\ UNCHANGED <<sessions, piMeta, createResp, creates, call, mails, g, vresp, gen, page, shop, geo, sweep, lookup>>

\* line 150: the loop ended at its test
LLoopEnd ==
  /\ l.pc = "loop"
  /\ l.i > l.maxAttempts
  /\ l' = LReturned(l)
  /\ UNCHANGED <<sessions, piMeta, createResp, creates, call, mails, g, vresp, gen, page, shop, geo, sweep, lookup>>

\* ------------------------------------------------------ stripe.js: verify
\* the answer of verify: its HTTP status, paid, status and metadata of the
\* body (created, amount_total and currency are copied from the session the
\* same way and left out); k: the session that was retrieved, 0 if none
VerifyResp(status, paid, payment_status, metadata, k) ==
  [status |-> status, paid |-> paid, payment_status |-> payment_status,
   metadata |-> metadata, k |-> k]

NoVerify == VerifyResp(0, FALSE, "", <<>>, 0)

\* verify that answers the metadata without its seed
VerifyDropsSeed(sidIn) ==
  /\ LET session_id == asStr(sidIn, SessionIdMax)
         found      == {k \in 1..Len(sessions) : CsId(k) = session_id}
     IN  \/ /\ session_id = <<>> \/ ~startsWithCs(session_id)
            /\ vresp' = VerifyResp(400, FALSE, "", <<>>, 0)
         \/ /\ startsWithCs(session_id)
            /\ vresp' = VerifyResp(500, FALSE, "", <<>>, 0)
         \/ /\ found # {}
            /\ LET k == CHOOSE j \in found : TRUE
               IN  vresp' =
                     IF sessions[k].payment_status # "paid"
                     THEN VerifyResp(200, FALSE, sessions[k].payment_status, <<>>, k)
                     ELSE VerifyResp(200, TRUE, sessions[k].payment_status,
                                     [sessions[k].metadata EXCEPT !.seed = <<>>], k)
  /\ UNCHANGED <<sessions, piMeta, createResp, creates, call, mails, g, l, gen, page, shop, geo, sweep, lookup>>

\* action verify: 400 for a missing or malformed session_id; 500 when the
\* retrieval fails (the catch of the handler); else the payment status, and
\* for a paid session session.metadata
Verify(sidIn) ==
  /\ LET session_id == asStr(sidIn, SessionIdMax)
         found      == {k \in 1..Len(sessions) : CsId(k) = session_id}
     IN  \/ /\ session_id = <<>> \/ ~startsWithCs(session_id)
            /\ vresp' = VerifyResp(400, FALSE, "", <<>>, 0)
         \/ /\ startsWithCs(session_id)
            /\ vresp' = VerifyResp(500, FALSE, "", <<>>, 0)
         \/ /\ found # {}
            /\ LET k == CHOOSE j \in found : TRUE
               IN  vresp' =
                     IF sessions[k].payment_status # "paid"
                     THEN VerifyResp(200, FALSE, sessions[k].payment_status, <<>>, k)
                     ELSE VerifyResp(200, TRUE, sessions[k].payment_status,
                                     sessions[k].metadata, k)
  /\ UNCHANGED <<sessions, piMeta, createResp, creates, call, mails, g, l, gen, page, shop, geo, sweep, lookup>>

\* ------------------------------------------------- the point generators
\* The three generators: rollCenter of part_001, rollSpot of public/app.js,
\* rollSpot of part_000.
GenFns == {"rollCenter", "rollSpot", "rollSpotBiased"}

GenCountries ==
  DOMAIN COUNTRY_BOUNDS
  \cup {<<"X", "X">>, <<"c", "o", "n", "s", "t", "r", "u", "c", "t", "o", "r">>}

GenSeed == CHOOSE u \in UserSeeds : u[1] = "3"

GenArgs == GenFns \X GenCountries \X ModeInputs \X {GenSeed} \X (1..2)

\* one call a = <<function, countryCode, mode, userSeed, rerolls>>: the point
\* it returns and the state in which it leaves the generator that it made
\* with mulberry32(seed32)
GenRun(a) ==
  CHOOSE r \in
    { IF a[1] = "rollCenter"
      THEN [point |-> rollCenter(a[2], a[3], a[4], a[5]), t |-> mulberryState(seed32, 2),
            draws |-> 2]
      ELSE IF a[1] = "rollSpot"
      THEN [point |-> rollSpot(a[2], a[3], a[4], a[5]), t |-> mulberryState(seed32, 2),
            draws |-> 2]
      ELSE LET biased == rollSpotBiasedFrom(a[2], a[3], a[5], bounds, seed32)
           IN  [point |-> biased.point, t |-> mulberryState(seed32, biased.draws),
                draws |-> biased.draws] :
        bounds \in {BoundsOf(a[2])},
        seed32 \in {hashStrToSeed(BaseString(a[2], a[3], a[4], a[5]))} } : TRUE

\* the calls of the model, computed once: <<arguments, outcome>>
GenRuns == {<<a, GenRun(a)>> : a \in GenArgs}

GenRunOf(a) == (CHOOSE p \in GenRuns : p[1] = a)[2]

\* values that rng() may return, times 2^32: the least, the middle, the greatest
ProbeDraws == {<<0, 0>>, <<32768, 0>>, <<65535, 65535>>}

\* calls: how many calls were made; results: <<arguments, point, number of
\* values drawn from the generator>> of every call so far; t: the state of the generator of the latest call when the call
\* returned (garbage from then on); probe: lines 68-69 and 76-77 of rollCenter
\* applied to given values of rng()
IdleGen == [calls |-> 0, results |-> {}, t |-> <<0, 0>>, probe |-> <<>>]

\* a generator kept from one call to the next instead of mulberry32(seed32)
GenCallSharedRng(a) ==
  /\ gen.calls < MaxRolls
  /\ gen.probe = <<>>
  /\ LET bounds == BoundsOf(a[2])
         seed32 == hashStrToSeed(BaseString(a[2], a[3], a[4], a[5]))
         t0     == IF gen.calls = 0 THEN seed32 ELSE gen.t
         t1     == Add32(t0, MulberryStep)
         t2     == Add32(t1, MulberryStep)
         point  == [country |-> bounds.name, countryCode |-> a[2], mode |-> a[3],
                    lat |-> Coordinate(bounds.latMin, bounds.latMax, mulberryOut(t1)),
                    lon |-> Coordinate(bounds.lonMin, bounds.lonMax, mulberryOut(t2)),
                    seed |-> a[2] \o <<"-">> \o a[3] \o <<"-">> \o toHex(seed32),
                    rerolls |-> a[5]]
     IN  gen' = [gen EXCEPT !.calls = @ + 1,
                            !.results = @ \cup {<<a, point, 2>>},
                            !.t = t2]
  /\ UNCHANGED <<sessions, piMeta, createResp, creates, call, mails, g, l, vresp, page, shop, geo, sweep, lookup>>

\* one call of a generator, from anywhere
GenCall(a) ==
  /\ gen.calls < MaxRolls
  /\ gen.probe = <<>>
  /\ \E run \in {GenRunOf(a)} :
       gen' = [gen EXCEPT !.calls = @ + 1,
                          !.results = @ \cup {<<a, run.point, run.draws>>},
                          !.t = run.t]
  /\ UNCHANGED <<sessions, piMeta, createResp, creates, call, mails, g, l, vresp, page, shop, geo, sweep, lookup>>

\* the coordinates of rollCenter for given values of its two draws
GenProbe(countryCode, dLat, dLon) ==
  /\ gen.calls = 0
  /\ gen.probe = <<>>
  /\ LET bounds == BoundsOf(countryCode)
     IN  gen' = [gen EXCEPT !.probe =
                   <<[countryCode |-> countryCode, dLat |-> dLat, dLon |-> dLon,
                      lat |-> Coordinate(bounds.latMin, bounds.latMax, dLat),
                      lon |-> Coordinate(bounds.lonMin, bounds.lonMax, dLon)]>>]
  /\ UNCHANGED <<sessions, piMeta, createResp, creates, call, mails, g, l, vresp, page, shop, geo, sweep, lookup>>

\* ------------------------------------------------ part_001: pageIndex
\* the values of the selects #country, #mode and #tileSize (metres)
PageCountries == {<<"N", "Z">>, <<"A", "U">>}

PageTiles == {1, 10}

\* pc: "idle" before pageIndex ran, "loaded" once its listeners are attached;
\* country, mode, tile: the selects; rerollDisabled, lockDisabled: the
\* buttons; flying: the calls of rollAndCheck that wait for rollUntilGood, in
\* the order they started; current: the spot of the last call that came back;
\* started, events: numbers of calls and of user events so far
IdlePage ==
  [pc |-> "idle", country |-> <<"N", "Z">>, mode |-> S_publicish, tile |-> 1,
   rerollDisabled |-> FALSE, lockDisabled |-> FALSE,
   flying |-> <<>>, current |-> <<>>, saved |-> <<>>, started |-> 0, events |-> 0]

\* tileMetersFromUI for a select that holds the whole number v: 1 unless
\* v > 0, else clamp(v, 0.1, 100)
tileMetersFromUI(v) ==
  IF v <= 0 THEN 1 ELSE IF v > 100 THEN 100 ELSE v

\* rollAndCheck up to its await, on the page pg: both buttons are disabled and
\* rollUntilGood starts with what the selects hold
rollAndCheck(pg) ==
  [pg EXCEPT !.rerollDisabled = TRUE,
             !.lockDisabled = TRUE,
             !.started = @ + 1,
             !.flying = Append(@, [id |-> pg.started + 1,
                                   countryCode |-> pg.country,
                                   mode |-> pg.mode,
                                   tileMeters |-> tileMetersFromUI(pg.tile),
                                   maxAttempts |-> IF pg.mode = S_publicish THEN 35 ELSE 5])]

\* pageIndex: the listeners are attached, then await rollAndCheck()
PageLoad ==
  /\ page.pc = "idle"
  /\ page' = rollAndCheck([page EXCEPT !.pc = "loaded"])
  /\ UNCHANGED <<sessions, piMeta, createResp, creates, call, mails, g, l, vresp, gen, shop, geo, sweep, lookup>>

\* a click on #reroll; a disabled button dispatches no click
RerollClick ==
  /\ page.pc = "loaded"
  /\ page.events < MaxEvents
  /\ ~page.rerollDisabled
  /\ page' = rollAndCheck([page EXCEPT !.events = @ + 1])
  /\ UNCHANGED <<sessions, piMeta, createResp, creates, call, mails, g, l, vresp, gen, shop, geo, sweep, lookup>>

\* the user picks another country: change on #country
CountryChange(countryCode) ==
  /\ page.pc = "loaded"
  /\ page.events < MaxEvents
  /\ countryCode # page.country
  /\ page' = rollAndCheck([page EXCEPT !.events = @ + 1, !.country = countryCode])
  /\ UNCHANGED <<sessions, piMeta, createResp, creates, call, mails, g, l, vresp, gen, shop, geo, sweep, lookup>>

\* the user picks another mode: change on #mode
ModeChange(mode) ==
  /\ page.pc = "loaded"
  /\ page.events < MaxEvents
  /\ mode # page.mode
  /\ page' = rollAndCheck([page EXCEPT !.events = @ + 1, !.mode = mode])
  /\ UNCHANGED <<sessions, piMeta, createResp, creates, call, mails, g, l, vresp, gen, shop, geo, sweep, lookup>>

\* the user picks another tile size: change on #tileSize
TileChange(tile) ==
  /\ page.pc = "loaded"
  /\ page.events < MaxEvents
  /\ tile # page.tile
  /\ page' = rollAndCheck([page EXCEPT !.events = @ + 1, !.tile = tile])
  /\ UNCHANGED <<sessions, piMeta, createResp, creates, call, mails, g, l, vresp, gen, shop, geo, sweep, lookup>>

\* rollUntilGood of the k-th waiting call comes back (the calls wait for the
\* network, so any of them may be first): rollAndCheck goes on after its
\* await, keeps the spot in current and enables both buttons
RunResolves(k) ==
  /\ k \in 1..Len(page.flying)
  /\ page' = [page EXCEPT
       !.flying = SubSeq(@, 1, k - 1) \o SubSeq(@, k + 1, Len(@)),
       !.current = <<page.flying[k]>>,
       !.rerollDisabled = FALSE,
       !.lockDisabled = FALSE]
  /\ UNCHANGED <<sessions, piMeta, createResp, creates, call, mails, g, l, vresp, gen, shop, geo, sweep, lookup>>

\* lines 559-564: a click on #lock saves current, if there is one, for the
\* checkout page; a disabled button dispatches no click
LockClick ==
  /\ page.pc = "loaded"
  /\ page.events < MaxEvents
  /\ ~page.lockDisabled
  /\ page.current # <<>>
  /\ page' = [page EXCEPT !.events = @ + 1, !.saved = page.current]
  /\ UNCHANGED <<sessions, piMeta, createResp, creates, call, mails, g, l, vresp, gen, shop, geo, sweep, lookup>>

\* ---------------------------------------------- part_001: pageCheckout
\* ---- JSON.parse, for texts without white space, arrays, escapes and
\* exponents: null, true, false, decimal numbers, strings and objects
JsNull == [type |-> "null", val |-> <<>>]

JsBool(b) == [type |-> "boolean", val |-> b]

JsNum(x) == [type |-> "number", val |-> x]

\* an object: its members <<key, value>> in the order of the text
JsObj(members) == [type |-> "object", val |-> members]

\* what a throw leaves in the place of a value
Thrown == [type |-> "thrown", val |-> <<>>]

ParseFail == [ok |-> FALSE, val |-> Undefined, next |-> 0]

Parsed(v, next) == [ok |-> TRUE, val |-> v, next |-> next]

StartsWithAt(s, i, w) ==
  i + Len(w) - 1 <= Len(s) /\ SubSeq(s, i, i + Len(w) - 1) = w

\* the first position from i that holds no digit
RECURSIVE DigitsEnd(_, _)
DigitsEnd(s, i) ==
  IF i <= Len(s) /\ IsDigit(s[i]) THEN DigitsEnd(s, i + 1) ELSE i

\* the position of the next quote from i, 0 if there is none
RECURSIVE QuoteFrom(_, _)
QuoteFrom(s, i) ==
  IF i > Len(s) THEN 0 ELSE IF s[i] = "\"" THEN i ELSE QuoteFrom(s, i + 1)

\* -? int (. digits)?, an int of several digits not starting with 0
ParseNumber(s, i) ==
  LET from  == IF s[i] = "-" THEN i + 1 ELSE i
      upto  == DigitsEnd(s, from)
      dot   == upto <= Len(s) /\ s[upto] = "."
      fend  == IF dot THEN DigitsEnd(s, upto + 1) ELSE upto
      ip    == SubSeq(s, from, upto - 1)
      fp    == IF dot THEN SubSeq(s, upto + 1, fend - 1) ELSE <<>>
  IN  IF \/ ip = <<>>
         \/ (Len(ip) > 1 /\ ip[1] = "0")
         \/ (dot /\ fp = <<>>)
      THEN ParseFail
      ELSE Parsed(JsNum(Num(s[i] = "-", DigitsToNat(ip \o fp), Len(fp))), fend)

RECURSIVE ParseValue(_, _)
RECURSIVE ParseMembers(_, _, _)
\* the members of an object from position i, after those of acc
ParseMembers(s, i, acc) ==
  LET close == QuoteFrom(s, i + 1)
      key   == SubSeq(s, i + 1, close - 1)
      value == ParseValue(s, close + 2)
      after == value.next
      all   == Append(acc, <<key, value.val>>)
  IN  IF ~(i <= Len(s) /\ s[i] = "\"") \/ close = 0 THEN ParseFail
      ELSE IF ~(close + 1 <= Len(s) /\ s[close + 1] = ":") THEN ParseFail
      ELSE IF ~value.ok \/ after > Len(s) THEN ParseFail
      ELSE IF s[after] = "}" THEN Parsed(JsObj(all), after + 1)
      ELSE IF s[after] = "," THEN ParseMembers(s, after + 1, all)
      ELSE ParseFail

\* the value that starts at position i
ParseValue(s, i) ==
  IF i > Len(s) THEN ParseFail
  ELSE IF StartsWithAt(s, i, <<"n", "u", "l", "l">>) THEN Parsed(JsNull, i + 4)
  ELSE IF StartsWithAt(s, i, <<"t", "r", "u", "e">>) THEN Parsed(JsBool(TRUE), i + 4)
  ELSE IF StartsWithAt(s, i, <<"f", "a", "l", "s", "e">>) THEN Parsed(JsBool(FALSE), i + 5)
  ELSE IF s[i] = "\""
  THEN LET close == QuoteFrom(s, i + 1)
       IN  IF close = 0 THEN ParseFail
           ELSE Parsed(Str(SubSeq(s, i + 1, close - 1)), close + 1)
  ELSE IF s[i] = "-" \/ IsDigit(s[i]) THEN ParseNumber(s, i)
  ELSE IF StartsWithAt(s, i, <<"{", "}">>) THEN Parsed(JsObj(<<>>), i + 2)
  ELSE IF s[i] = "{" THEN ParseMembers(s, i + 1, <<>>)
  ELSE ParseFail

\* JSON.parse(text): the value, or Thrown for a SyntaxError
JSONparse(text) ==
  LET r == ParseValue(text, 1)
  IN  IF r.ok /\ r.next = Len(text) + 1 THEN r.val ELSE Thrown

\* ---- JS values on the checkout page
\* !!v
Truthy(v) ==
  CASE v.type = "boolean" -> v.val
    [] v.type = "number"  -> v.val.kind = "inf" \/ (v.val.kind = "num" /\ v.val.m # 0)
    [] v.type = "string"  -> v.val # <<>>
    [] v.type = "object"  -> TRUE
    [] OTHER              -> FALSE

\* v[key] for a value that is not null or undefined: the last member of that
\* name of an object, undefined otherwise
Get(v, key) ==
  IF v.type = "object" /\ \E k \in 1..Len(v.val) : v.val[k][1] = key
  THEN v.val[CHOOSE k \in 1..Len(v.val) :
               /\ v.val[k][1] = key
               /\ \A j \in (k + 1)..Len(v.val) : v.val[j][1] # key][2]
  ELSE Undefined

\* String(v)
StringOf(v) ==
  CASE v.type = "string"  -> v.val
    [] v.type = "number"  -> IF v.val.kind = "num" THEN NumToString(v.val)
                             ELSE IF v.val.kind = "nan" THEN <<"N", "a", "N">>
                             ELSE <<"I", "n", "f", "i", "n", "i", "t", "y">>
    [] v.type = "boolean" -> IF v.val THEN <<"t", "r", "u", "e">>
                             ELSE <<"f", "a", "l", "s", "e">>
    [] v.type = "null"    -> <<"n", "u", "l", "l">>
    [] v.type = "object"  -> <<"[", "o", "b", "j", "e", "c", "t", " ",
                               "O", "b", "j", "e", "c", "t", "]">>
    [] OTHER              -> <<"u", "n", "d", "e", "f", "i", "n", "e", "d">>

\* ---- localStorage: <<>> when it has no item STORE_KEY, else <<text>>
\* localStorage.getItem(STORE_KEY) || "null"
StoredText(stored) ==
  IF stored = <<>> \/ stored[1] = <<>> THEN <<"n", "u", "l", "l">> ELSE stored[1]

\* loadSpot without its try and catch
loadSpotUncaught(stored) == JSONparse(StoredText(stored))

\* loadSpot: try { return JSON.parse(...) } catch { return null }
loadSpot(stored) ==
  IF JSONparse(StoredText(stored)) = Thrown THEN JsNull
  ELSE JSONparse(StoredText(stored))

\* spot.tile || makeTileFromCenter(spot.lat, spot.lon, 1), as far as
\* pageCheckout reads it: sizeMeters and areaM2
TileOf(spot) ==
  IF Truthy(Get(spot, <<"t", "i", "l", "e">>))
  THEN Get(spot, <<"t", "i", "l", "e">>)
  ELSE JsObj(<< <<<<"s", "i", "z", "e", "M", "e", "t", "e", "r", "s">>, JsNum(Num(FALSE, 1, 0))>>,
                <<<<"a", "r", "e", "a", "M", "2">>, JsNum(Num(FALSE, 1, 0))>> >>)

\* the payload of the create request
CreatePayload(spot) ==
  [country |-> Get(spot, <<"c", "o", "u", "n", "t", "r", "y">>),
   mode    |-> Get(spot, <<"m", "o", "d", "e">>),
   seed    |-> Get(spot, <<"s", "e", "e", "d">>),
   lat     |-> Str(StringOf(Get(spot, <<"l", "a", "t">>))),
   lon     |-> Str(StringOf(Get(spot, <<"l", "o", "n">>))),
   tile_m  |-> Str(StringOf(Get(TileOf(spot),
                                <<"s", "i", "z", "e", "M", "e", "t", "e", "r", "s">>)))]

\* what localStorage may hold under STORE_KEY when the checkout page opens
T_spot ==
  <<"{", "\"", "c", "o", "u", "n", "t", "r", "y", "\"", ":", "\"", "J", "a", "p", "a", "n", "\"", ",",
    "\"", "m", "o", "d", "e", "\"", ":", "\"", "a", "n", "y", "w", "h", "e", "r", "e", "\"", ",",
    "\"", "l", "a", "t", "\"", ":", "3", "5", ".", "5", ",",
    "\"", "l", "o", "n", "\"", ":", "1", "3", "9", ".", "2", "5", ",",
    "\"", "s", "e", "e", "d", "\"", ":", "\"", "J", "P", "-", "a", "-", "1", "f", "\"">>

T_tile ==
  <<",", "\"", "t", "i", "l", "e", "\"", ":", "{",
    "\"", "s", "i", "z", "e", "M", "e", "t", "e", "r", "s", "\"", ":", "1", "0", ",",
    "\"", "a", "r", "e", "a", "M", "2", "\"", ":", "1", "0", "0", "}">>

StoredInputs ==
  { <<>>,                                            \* no item
    << <<>> >>,                                      \* the empty string
    << <<"{">> >>,
    << <<"u", "n", "d", "e", "f", "i", "n", "e", "d">> >>,
    << <<"n", "u", "l", "l", "x">> >>,
    << <<"0", "1">> >>,
    << T_spot >>,                                    \* cut before its end
    << T_spot \o T_tile >>,
    << T_spot \o <<",", "}">> >>,
    << <<"n", "u", "l", "l">> >>,
    << <<"0">> >>,
    << <<"f", "a", "l", "s", "e">> >>,
    << <<"\"", "\"">> >>,
    << T_spot \o <<"}">> >>,
    << T_spot \o T_tile \o <<"}">> >>,
    << <<"{", "\"", "l", "a", "t", "\"", ":", "-", "4", "1", "}">> >>,
    << <<"{", "\"", "t", "i", "l", "e", "\"", ":", "{", "}", "}">> >>,
    << <<"{", "\"", "l", "a", "t", "\"", ":", "1", ",", "\"", "l", "a", "t", "\"", ":", "2", "}">> >>,
    << <<"t", "r", "u", "e">> >>,
    << <<"7">> >> }

\* pc: "idle" before pageCheckout ran, then "noSpot", "ready" (the summary is
\* shown and the click listener attached), "creating" (a create request is out),
\* "redirected", "loadThrew" (an exception left loadSpot) or "renderThrew" (one
\* left the template of the summary); stored: localStorage; spot: what
\* loadSpot returned; payDisabled: payBtn.disabled; listener: whether payBtn
\* has the click listener; status: the text of setStatus; requests: the
\* payloads of the create requests sent so far
IdleShop ==
  [pc |-> "idle", stored |-> <<>>, spot |-> Undefined, payDisabled |-> FALSE,
   listener |-> FALSE, status |-> "", requests |-> <<>>]

\* pageCheckout
ShopLoad ==
  /\ shop.pc = "idle"
  /\ \E spot \in {loadSpot(shop.stored)} :
       shop' =
         IF spot = Thrown
         THEN [shop EXCEPT !.pc = "loadThrew"]
         ELSE IF ~Truthy(spot)
         THEN [shop EXCEPT !.pc = "noSpot", !.spot = spot, !.payDisabled = TRUE,
                           !.status = "No saved tile."]
         ELSE IF Get(TileOf(spot), <<"a", "r", "e", "a", "M", "2">>).type # "number"
         THEN [shop EXCEPT !.pc = "renderThrew", !.spot = spot]
         ELSE [shop EXCEPT !.pc = "ready", !.spot = spot, !.listener = TRUE]
  /\ UNCHANGED <<sessions, piMeta, createResp, creates, call, mails, g, l, vresp, gen, page, geo, sweep, lookup>>

\* a click on #payBtn, up to the await of postJSON; a disabled button
\* dispatches no click
PayClick ==
  /\ shop.listener
  /\ ~shop.payDisabled
  /\ Len(shop.requests) < MaxClicks
  /\ shop' = [shop EXCEPT !.pc = "creating",
                          !.payDisabled = TRUE,
                          !.status = "Creating secure checkout",
                          !.requests = Append(@, CreatePayload(shop.spot))]
  /\ UNCHANGED <<sessions, piMeta, createResp, creates, call, mails, g, l, vresp, gen, page, geo, sweep, lookup>>

\* postJSON comes back: with a url, without one, or with a failure
CreateAnswer(answer) ==
  /\ shop.pc = "creating"
  /\ shop' =
       IF answer = "url"
       THEN [shop EXCEPT !.pc = "redirected", !.status = "Redirecting"]
       ELSE [shop EXCEPT !.pc = "ready", !.payDisabled = FALSE,
                         !.status = IF answer = "nourl"
                                    THEN "Error: No checkout URL returned"
                                    ELSE "Error: Request failed"]
  /\ UNCHANGED <<sessions, piMeta, createResp, creates, call, mails, g, l, vresp, gen, page, geo, sweep, lookup>>

\* --------------------------------------------------------- specifications
\* ------------------------------------------------- the tile machine
\* centers: the equator and the Greenwich meridian, powers of two (a point of
\* Australia is -32, 128), and points the generators return
TileLats == {0, -32000000, -36848461, 64000000, 53453162}

TileLons == {0, 128000000, 174763336, -7007252}

\* sizes in meters, <<n, j>> for n / 2^j: 1, 10, 1000, 0.25 and 1.5
TileSizes == {<<1, 0>>, <<10, 0>>, <<1000, 0>>, <<1, 2>>, <<3, 1>>}

IdleGeo == [lat |-> 0, lon |-> 0, sizeMeters |-> <<1, 0>>, cos |-> 1024, out |-> <<>>]

\* part_001 lines 92-113: one call of makeTileFromCenter
MakeTile ==
  /\ geo.out = <<>>
  /\ geo' = [geo EXCEPT !.out = <<makeTile(geo.lat, geo.lon, geo.sizeMeters, geo.cos)>>]
  /\ UNCHANGED <<sessions, piMeta, createResp, creates, call, mails, g, l, vresp, gen, page, shop, sweep, lookup>>

\* ------------------------------------------------- series of attempts
\* how far a series goes
MaxAttemptNumber == 1000

S_constructor == <<"c", "o", "n", "s", "t", "r", "u", "c", "t", "o", "r">>

\* <<countryCode, mode, userSeed>> of the series
SweepInputs ==
  { <<S_NZ, S_publicish, GenSeed>>,
    <<<<"A", "U">>, S_anywhere, CHOOSE u \in UserSeeds : u # GenSeed>>,
    <<<<"X", "X">>, S_publicish, GenSeed>>,
    <<S_constructor, S_anywhere, GenSeed>> }

\* n: the attempt numbers 1..n were passed so far; seen: <<lat, lon>> of the
\* points they gave; collided: two of them gave the same point
IdleSweep ==
  [countryCode |-> S_NZ, mode |-> S_publicish, userSeed |-> GenSeed,
   n |-> 0, seen |-> {}, collided |-> FALSE]

\* a === b for two coordinates: NaN is equal to nothing
SameCoordinate(a, b) == a # NaNCoord /\ a = b

\* part_001 lines 62-81: rollCenter with the next attempt number
SweepRoll ==
  /\ sweep.n < MaxAttemptNumber
  /\ \E p \in {rollCenter(sweep.countryCode, sweep.mode, sweep.userSeed, sweep.n + 1)} :
       sweep' = [sweep EXCEPT
                   !.n = @ + 1,
                   !.seen = @ \cup {<<p.lat, p.lon>>},
                   !.collided = @ \/ \E q \in sweep.seen :
                                       /\ SameCoordinate(q[1], p.lat)
                                       /\ SameCoordinate(q[2], p.lon)]
  /\ UNCHANGED <<sessions, piMeta, createResp, creates, call, mails, g, l, vresp, gen, page, shop, geo, lookup>>

\* ------------------------------------------------- one reverse lookup
\* responses of the reverse-geocoding service, field by field
LookupTypes ==
  { <<"r", "e", "s", "i", "d", "e", "n", "t", "i", "a", "l">>, <<"b", "a", "y">>,
    <<"B", "e", "a", "c", "h">>, <<"r", "i", "v", "e", "r", "b", "a", "n", "k">>,
    <<"p", "e", "a", "k">>, <<"c", "o", "a", "s", "t", "l", "i", "n", "e">>, <<>> }

LookupCategories ==
  { <<"h", "i", "g", "h", "w", "a", "y">>, <<"n", "a", "t", "u", "r", "a", "l">>,
    <<"W", "a", "t", "e", "r", "w", "a", "y">>, <<>> }

\* nothing, 7 characters between blanks, 12 characters, 13 characters
LookupNames ==
  { <<>>, <<" ", "M", "t", " ", "O", "w", "e", "n", " ">>,
    <<"N", "e", "l", "s", "o", "n", " ", "L", "a", "k", "e", "s">>,
    <<"M", "a", "i", "n", " ", "R", "d", ",", " ", "H", "u", "t", "t">> }

LookupAddresses ==
  { {}, {"country"}, {"road", "country"}, {"city"}, {"hamlet", "country"},
    {"footway"}, {"state", "country"} }

LookupData ==
  { [type |-> t, category |-> c, display_name |-> d, address |-> a] :
      t \in LookupTypes, c \in LookupCategories, d \in LookupNames, a \in LookupAddresses }

IdleLookup == [data |-> CHOOSE d \in NominatimData : d.address = {}, nom |-> <<>>]

\* part_001 lines 131-155: reverseCheckNominatim from the response on
NominatimChecked ==
  /\ lookup.nom = <<>>
  /\ lookup' = [lookup EXCEPT !.nom = <<reverseCheckNominatim(lookup.data)>>]
  /\ UNCHANGED <<sessions, piMeta, createResp, creates, call, mails, g, l, vresp, gen, page, shop, geo, sweep>>

InitStripe ==
  /\ sessions = <<>>
  /\ piMeta = <<>>
  /\ createResp = NoResp
  /\ creates = 0
  /\ call = [c \in Calls |-> IdleCall]
  /\ mails = EmptyBag
  /\ g = IdleG
  /\ l = IdleL
  /\ vresp = NoVerify
  /\ gen = IdleGen
  /\ geo = IdleGeo
  /\ sweep = IdleSweep
  /\ lookup = IdleLookup
  /\ page = IdlePage
  /\ shop = IdleShop

NextStripe ==
  \/ \E body \in CreateBodies : Create(body)
  \/ \E k \in 1..MaxCreates, withIntent \in BOOLEAN : Pay(k, withIntent)
  \/ \E c \in Calls, sidIn \in SessionIdInputs : DeliverRetrieve(c, sidIn)
  \/ \E c \in Calls : DeliverPdf(c)
  \/ \E c \in Calls : DeliverSend(c)
  \/ \E c \in Calls : DeliverUpdate(c)

\* the payment function: create requests, payments and deliver invocations
SpecStripe == InitStripe /\ [][NextStripe]_vars

\* one orchestrator run, of either front end, with any arguments
Init ==
  /\ sessions = <<>>
  /\ piMeta = <<>>
  /\ createResp = NoResp
  /\ creates = 0
  /\ call = [c \in Calls |-> IdleCall]
  /\ mails = EmptyBag
  /\ vresp = NoVerify
  /\ gen = IdleGen
  /\ geo = IdleGeo
  /\ sweep = IdleSweep
  /\ lookup = IdleLookup
  /\ page = IdlePage
  /\ shop = IdleShop
  /\ \E countryCode \in CountryInputs, mode \in ModeInputs,
        maxAttempts \in 0..MaxAttemptsBound, userSeed \in UserSeeds :
       \/ /\ \E tileMeters \in TileInputs :
               g = GStart(countryCode, mode, tileMeters, maxAttempts, userSeed)
          /\ l = IdleL
       \/ /\ g = IdleG
          /\ l = LStart(countryCode, mode, maxAttempts, userSeed)

Next ==
  \/ GDerive
  \/ GNominatimFail
  \/ \E data \in NominatimData : GNominatimReply(data)
  \/ GOverpassFail
  \/ \E count \in OverpassCounts : GOverpassReply(count)
  \/ GExhaust
  \/ LDerive
  \/ \E data \in NominatimData : LReverseReply(data)
  \/ LReverseFail
  \/ LLoopEnd

Spec == Init /\ [][Next]_vars

NextVerify ==
  \/ \E body \in DirectBodies : Create(body)
  \/ \E k \in 1..MaxCreates, withIntent \in BOOLEAN : Pay(k, withIntent)
  \/ \E sidIn \in SessionIdInputs : Verify(sidIn)

\* the payment function: create requests, payments and verify requests
SpecVerify == InitStripe /\ [][NextVerify]_vars

InitPage ==
  /\ sessions = <<>>
  /\ piMeta = <<>>
  /\ createResp = NoResp
  /\ creates = 0
  /\ call = [c \in Calls |-> IdleCall]
  /\ mails = EmptyBag
  /\ g = IdleG
  /\ l = IdleL
  /\ vresp = NoVerify
  /\ gen = IdleGen
  /\ geo = IdleGeo
  /\ sweep = IdleSweep
  /\ lookup = IdleLookup
  /\ shop = IdleShop
  /\ \E countryCode \in PageCountries, mode \in ModeInputs, tile \in PageTiles :
       page = [IdlePage EXCEPT !.country = countryCode, !.mode = mode, !.tile = tile]

NextPage ==
  \/ PageLoad
  \/ RerollClick
  \/ \E countryCode \in PageCountries : CountryChange(countryCode)
  \/ \E mode \in ModeInputs : ModeChange(mode)
  \/ \E tile \in PageTiles : TileChange(tile)
  \/ \E k \in 1..(MaxEvents + 1) : RunResolves(k)
  \/ LockClick

\* the generation page and its user
SpecPage == InitPage /\ [][NextPage]_vars

InitShop ==
  /\ sessions = <<>>
  /\ piMeta = <<>>
  /\ createResp = NoResp
  /\ creates = 0
  /\ call = [c \in Calls |-> IdleCall]
  /\ mails = EmptyBag
  /\ g = IdleG
  /\ l = IdleL
  /\ vresp = NoVerify
  /\ gen = IdleGen
  /\ geo = IdleGeo
  /\ sweep = IdleSweep
  /\ lookup = IdleLookup
  /\ page = IdlePage
  /\ \E stored \in StoredInputs : shop = [IdleShop EXCEPT !.stored = stored]

NextShop ==
  \/ ShopLoad
  \/ PayClick
  \/ \E answer \in {"url", "nourl", "failed"} : CreateAnswer(answer)

\* the checkout page and its user
SpecShop == InitShop /\ [][NextShop]_vars

NextGen ==
  \/ \E a \in GenArgs : GenCall(a)
  \/ \E countryCode \in GenCountries, dLat \in ProbeDraws, dLon \in ProbeDraws :
       GenProbe(countryCode, dLat, dLon)

\* calls of the point generators, in any order and with any arguments
SpecGen == InitStripe /\ [][NextGen]_vars

InitGeo ==
  /\ sessions = <<>>
  /\ piMeta = <<>>
  /\ createResp = NoResp
  /\ creates = 0
  /\ call = [c \in Calls |-> IdleCall]
  /\ mails = EmptyBag
  /\ g = IdleG
  /\ l = IdleL
  /\ vresp = NoVerify
  /\ gen = IdleGen
  /\ page = IdlePage
  /\ shop = IdleShop
  /\ sweep = IdleSweep
  /\ lookup = IdleLookup
  /\ \E lat \in TileLats, lon \in TileLons, sizeMeters \in TileSizes :
       \E cos \in Cosines(lat) :
         geo = [lat |-> lat, lon |-> lon, sizeMeters |-> sizeMeters, cos |-> cos, out |-> <<>>]

NextGeo == MakeTile

\* makeTileFromCenter applied to any center and size
SpecGeo == InitGeo /\ [][NextGeo]_vars

InitSweep ==
  /\ sessions = <<>>
  /\ piMeta = <<>>
  /\ createResp = NoResp
  /\ creates = 0
  /\ call = [c \in Calls |-> IdleCall]
  /\ mails = EmptyBag
  /\ g = IdleG
  /\ l = IdleL
  /\ vresp = NoVerify
  /\ gen = IdleGen
  /\ page = IdlePage
  /\ shop = IdleShop
  /\ geo = IdleGeo
  /\ lookup = IdleLookup
  /\ \E a \in SweepInputs :
       sweep = [IdleSweep EXCEPT !.countryCode = a[1], !.mode = a[2], !.userSeed = a[3]]

NextSweep == SweepRoll

\* rollCenter called with the attempt numbers 1, 2, 3, ... for fixed arguments
SpecSweep == InitSweep /\ [][NextSweep]_vars

InitLookup ==
  /\ sessions = <<>>
  /\ piMeta = <<>>
  /\ createResp = NoResp
  /\ creates = 0
  /\ call = [c \in Calls |-> IdleCall]
  /\ mails = EmptyBag
  /\ g = IdleG
  /\ l = IdleL
  /\ vresp = NoVerify
  /\ gen = IdleGen
  /\ page = IdlePage
  /\ shop = IdleShop
  /\ geo = IdleGeo
  /\ sweep = IdleSweep
  /\ \E data \in LookupData : lookup = [data |-> data, nom |-> <<>>]

NextLookup == NominatimChecked

\* the place-type check applied to any response
SpecLookup == InitLookup /\ [][NextLookup]_vars

\* A run under the scheduling of the page: a continuation whose awaited call
\* has resolved or failed is run, and every call does resolve or fail.
SpecLive == Init /\ [][Next]_vars /\ WF_vars(Next)

\* ------------------------------------------------- properties of deliver
\* the number of certificate mails sent for session k
MailCount(k) ==
  BagCardinality([m \in {x \in BagToSet(mails) : x.k = k} |-> mails[m]])

\* the deliver invocations that retrieved session k
CallsOn(k) == {c \in Calls : call[c].pc # "idle" /\ call[c].k = k}

AlreadyEmailed == Resp(200, "Already emailed (idempotent).", TRUE)

\* C1: when a deliver invocation for a session begins after another invocation
\* for that session has answered that it sent the mail, the later one finds the
\* stored marker, sends nothing and answers delivered = true with the
\* already-emailed message; with just these two invocations on the session,
\* exactly one mail has been sent for it.
C1_SecondDeliverSendsNothing ==
  \A q \in Calls :
    call[q].after =>
      /\ call[q].pc = "done"
      /\ call[q].resp = AlreadyEmailed
      /\ call[q].sent = 0
      /\ piMeta[call[q].k].certificate_emailed = S_yes
      /\ \A p \in Calls :
           ( /\ call[p].pc = "done"
             /\ call[p].resp.msg = "sent"
             /\ CallsOn(call[q].k) = {p, q} ) => MailCount(call[q].k) = 1

\* a second invocation has answered after the first one sent the mail
C1_Witness ==
  \E p, q \in Calls :
    /\ p # q
    /\ call[p].pc = "done" /\ call[p].resp.msg = "sent" /\ call[p].sent = 1
    /\ call[q].after /\ call[q].pc = "done" /\ call[q].k = call[p].k
    /\ call[q].resp = AlreadyEmailed
    /\ MailCount(call[q].k) = 1

\* C2: whatever the interleaving of the deliver invocations for a session, at
\* most one certificate mail is sent for it.
C2_AtMostOneMailPerSession ==
  \A k \in 1..Len(sessions) : MailCount(k) <= 1

\* the consent a create request carries, read as create reads it
RequestedConsent(req) ==
  toLowerCase(asStr(OrElse(req.email_consent, Str(S_no)), ConsentMax)) = S_yes

\* the address a create request carries, surrounding white space apart
RequestedAddress(req) ==
  IF IsString(req.email) THEN Trim(req.email.val) ELSE <<>>

\* session k is paid and its metadata carry consent and a well-formed address
Eligible(k) ==
  /\ sessions[k].payment_status = "paid"
  /\ sessions[k].metadata.email_consent = S_yes
  /\ looksLikeEmail(sessions[k].metadata.email)

\* C3: a certificate mail is sent, and the marker written, only for a session
\* that is paid and whose metadata carry consent "yes" and a well-formed
\* address; and an address is mailed only if create was called with
\* email_consent = yes for that very address.
C3_MailOnlyToConsentedAddress ==
  /\ \A m \in BagToSet(mails) :
       /\ Eligible(m.k)
       /\ RequestedConsent(sessions[m.k].req)
       /\ RequestedAddress(sessions[m.k].req) = m.to
  /\ \A k \in 1..Len(sessions) :
       piMeta[k].certificate_emailed # <<>> => Eligible(k)

\* ----------------------------------------- properties of the orchestrators
GStrict == g.pc # "idle" /\ g.mode = S_publicish

GLite == g.pc # "idle" /\ g.mode # S_publicish

LLite == l.pc # "idle" /\ l.mode # S_publicish

\* the attempt numbers 1, 2, ..., Len(derived), each once and in order
InOrder(derived) == \A j \in 1..Len(derived) : derived[j] = j

\* C4: rollUntilGood and rollUntilLikelyLand derive at most maxAttempts
\* points, and the attempt numbers they use are 1, 2, ..., k in increasing
\* order, none used twice.
C4_AttemptsBoundedAndInOrder ==
  /\ g.pc # "idle" => Len(g.derived) <= g.maxAttempts /\ InOrder(g.derived)
  /\ l.pc # "idle" => Len(l.derived) <= l.maxAttempts /\ InOrder(l.derived)

\* a strict run that used every one of its attempts, more than two of them
C4_Witness ==
  /\ GStrict
  /\ g.pc = "returned"
  /\ g.maxAttempts >= 3
  /\ g.derived = [j \in 1..g.maxAttempts |-> j]

\* the point p lies in the bounding box of the country of the run
HasLatLon(p) ==
  LET b == BoundsOf(g.countryCode)
  IN  /\ p.lat \in b.latMin..b.latMax
      /\ p.lon \in b.lonMin..b.lonMax

\* C5: in rollUntilGood with maxAttempts >= 1 a failed reverse-geocoding call
\* never leaves the function as an exception; in strict mode the failed
\* attempt is recorded as not accepted, uses up one attempt and the loop goes
\* on (the run returns right after it only when it was the last attempt, with
\* the exhausted result); and every run that returns, returns a result that
\* carries a point with latitude and longitude.
C5_LookupFailureIsContained ==
  (g.pc # "idle" /\ g.maxAttempts >= 1) =>
    /\ g.pc \in {"loop", "nominatim", "overpass", "returned"}
    /\ GStrict =>
         \A j \in 1..Len(g.checked) :
           g.checked[j].level = "error" =>
             /\ ~g.checked[j].ok
             /\ g.i > j
             /\ (g.pc = "returned" /\ j = Len(g.checked)) =>
                  /\ j = g.maxAttempts
                  /\ g.result[1].check.level = "exhausted"
    /\ g.pc = "returned" =>
         /\ g.result # Null
         /\ HasLatLon(g.result[1].center)
         /\ g.result[1].center.rerolls \in 1..g.maxAttempts

\* a strict run whose first lookup failed went on, and returned a later point
C5_Witness ==
  /\ GStrict
  /\ g.pc = "returned"
  /\ Len(g.checked) >= 2
  /\ g.checked[1].level = "error"
  /\ g.result # Null
  /\ g.result[1].center.rerolls = Len(g.checked)
  /\ g.result[1].check.ok

\* C6: a strict run of rollUntilGood with maxAttempts >= 1 in which no attempt
\* was accepted returns the candidate of attempt maxAttempts, with check.ok
\* false and check.level "exhausted".
C6_ExhaustedReturnsLastCandidate ==
  ( /\ GStrict
    /\ g.pc = "returned"
    /\ g.maxAttempts >= 1
    /\ \A j \in 1..Len(g.checked) : ~g.checked[j].ok ) =>
      /\ g.result # Null
      /\ g.result[1].center =
           Centers[<<g.countryCode, g.mode, g.userSeed, g.maxAttempts>>]
      /\ g.result[1].center.rerolls = g.maxAttempts
      /\ ~g.result[1].check.ok
      /\ g.result[1].check.level = "exhausted"

\* a strict run of three or more attempts, all rejected, has returned
C6_Witness ==
  /\ GStrict
  /\ g.pc = "returned"
  /\ g.maxAttempts >= 3
  /\ Len(g.checked) = g.maxAttempts
  /\ \A j \in 1..Len(g.checked) : ~g.checked[j].ok
  /\ g.result[1].check.level = "exhausted"

\* C7: in a strict run of rollUntilGood the accepted point is the one of the
\* smallest attempt number whose check passed: once a check has passed the
\* run has returned that attempt's point, nothing was derived or checked
\* after it, and every attempt before it was checked and not accepted.
C7_FirstPassingAttemptIsReturned ==
  GStrict =>
    \A j \in 1..Len(g.checked) :
      g.checked[j].ok =>
        /\ j = Len(g.checked)
        /\ g.derived = [n \in 1..j |-> n]
        /\ \A n \in 1..(j - 1) : ~g.checked[n].ok
        /\ g.pc = "returned"
        /\ g.result = g.best
        /\ g.result[1].center.rerolls = j
        /\ g.result[1].check.ok

\* a strict run accepted its third attempt after rejecting two
C7_Witness ==
  /\ GStrict
  /\ g.pc = "returned"
  /\ Len(g.checked) = 3
  /\ g.checked[3].ok
  /\ g.maxAttempts > 3
  /\ g.result[1].center.rerolls = 3

\* C8: a run of rollUntilGood outside strict mode with maxAttempts >= 1
\* derives exactly one point, that of attempt 1, and its result has
\* check.ok = true whatever the lookup gave: water, no country, a failed call.
C8_LiteRunTakesFirstPoint ==
  (GLite /\ g.maxAttempts >= 1) =>
    /\ Len(g.derived) <= 1
    /\ g.pc = "returned" =>
         /\ g.derived = <<1>>
         /\ g.result # Null
         /\ g.result[1].center.rerolls = 1
         /\ g.result[1].check.ok

\* a run outside strict mode returned its first point after a failed lookup
C8_Witness ==
  /\ GLite
  /\ g.maxAttempts >= 2
  /\ g.pc = "returned"
  /\ g.derived = <<1>>
  /\ g.result[1].check.level = "error"
  /\ g.result[1].check.ok

\* C9: a run of rollUntilLikelyLand outside strict mode derives exactly one
\* point and ends after that attempt whatever the lookup gave, a failed
\* lookup included.
C9_LiteRunOfAppDerivesOnePoint ==
  LLite =>
    /\ Len(l.derived) <= 1
    /\ Len(l.checked) = 1 => l.pc = "returned"

\* C10: outside strict mode a sampling run makes no call to any external
\* service: its set of network calls is empty.
C10_LiteRunMakesNoCall ==
  /\ GLite => g.fetches = <<>>
  /\ LLite => l.fetches = <<>>

\* C10, amended: outside strict mode a sampling run makes no call to the
\* infrastructure-proximity service, but it makes one reverse-geocoding call
\* for each point it derives; in rollUntilGood that is exactly one call, and
\* its answer does not decide acceptance.
C10_LiteRunCallsOnlyReverseLookup ==
  /\ GLite =>
       /\ g.fetches = [j \in 1..Len(g.derived) |-> [svc |-> "nominatim", i |-> j]]
       /\ Len(g.fetches) <= 1
       /\ g.pc = "returned" /\ g.maxAttempts >= 1 =>
            Len(g.fetches) = 1 /\ g.result[1].check.ok
  /\ LLite =>
       l.fetches = [j \in 1..Len(l.derived) |-> [svc |-> "nominatim", i |-> j]]

\* a run outside strict mode returned a point the reverse lookup called water
C10_Witness ==
  /\ GLite
  /\ g.pc = "returned"
  /\ g.fetches = <<[svc |-> "nominatim", i |-> 1]>>
  /\ g.result[1].check.level = "lite"
  /\ ~g.result[1].check.nom[1].ok

LStrict == l.pc # "idle" /\ l.mode = S_publicish

\* the run of rollUntilLikelyLand left its loop through the break of the catch
LStoppedOnFailure ==
  /\ l.pc = "returned"
  /\ l.result[1].check # NoCheck
  /\ l.result[1].check[1].place = S_LookupUnavailable

\* C11: a strict run of rollUntilLikelyLand stops on a failed lookup, and
\* returns the current candidate marked "Lookup unavailable", only if no
\* lookup of the run has succeeded, that is only after failures in a row from
\* the start of the run; if a lookup succeeded earlier the run goes on with the
\* next attempt while attempts remain.
C11_StopsOnlyIfNoLookupSucceeded ==
  (LStrict /\ LStoppedOnFailure) =>
    \A j \in 1..Len(l.checked) : l.checked[j].level = "error"

\* the attempts of a run that were derived and whose check has not resolved
Unresolved(run) == Len(run.derived) - Len(run.checked)

\* the fetches of a run are issued attempt by attempt, and every attempt
\* starts with its reverse lookup
FetchesInOrder(run) ==
  /\ \A j \in 1..Len(run.fetches) : run.fetches[j].i \in 1..Len(run.derived)
  /\ \A j \in 1..(Len(run.fetches) - 1) :
       \/ run.fetches[j + 1].i = run.fetches[j].i + 1
       \/ /\ run.fetches[j + 1].i = run.fetches[j].i
          /\ run.fetches[j].svc = "nominatim"
          /\ run.fetches[j + 1].svc = "overpass"

\* C12: within one orchestrator run the attempts are strictly sequential: at
\* most one attempt has its check chain in flight, namely the latest one and
\* only while the run awaits a call of it, and attempt i+1 is derived only
\* after every check call of attempt i has resolved or failed.
C12_AttemptsAreSequential ==
  /\ g.pc # "idle" =>
       /\ Unresolved(g) \in {0, 1}
       /\ Unresolved(g) = 1 <=> g.pc \in {"nominatim", "overpass"}
       /\ FetchesInOrder(g)
       /\ g.pc \in {"nominatim", "overpass"} =>
            g.fetches[Len(g.fetches)] = [svc |-> g.pc, i |-> Len(g.derived)]
  /\ l.pc # "idle" =>
       /\ Unresolved(l) \in {0, 1}
       /\ Unresolved(l) = 1 <=> l.pc = "reverse"
       /\ FetchesInOrder(l)
       /\ l.pc = "reverse" =>
            l.fetches[Len(l.fetches)] = [svc |-> "nominatim", i |-> Len(l.derived)]

\* a strict run awaits the road query of its third attempt
C12_Witness ==
  /\ GStrict
  /\ g.pc = "overpass"
  /\ Len(g.derived) = 3
  /\ Len(g.checked) = 2
  /\ Len(g.fetches) >= 4

\* C19: in every result that rollUntilGood returns, the confidence level of
\* the check is one of none, weak, strong, fallback, exhausted.
C19_LevelIsOneOfSpecLabels ==
  (g.pc = "returned" /\ g.result # Null) =>
    g.result[1].check.level \in {"none", "weak", "strong", "fallback", "exhausted"}

\* C19, amended: in every result that rollUntilGood returns, the level of the
\* check is one of lite, error, strong, fallback, exhausted: lite and error in
\* place of weak and none; the levels nominatim and overpass of a rejected
\* attempt never reach a result.
C19_LevelIsOneOfCodeLabels ==
  (g.pc = "returned" /\ g.result # Null) =>
    /\ g.result[1].check.level \in {"lite", "error", "strong", "fallback", "exhausted"}
    /\ GLite => g.result[1].check.level \in {"lite", "error"}
    /\ GStrict => g.result[1].check.level \in {"strong", "fallback", "exhausted"}

\* a strict run whose last attempt was rejected by the reverse lookup returned
C19_Witness ==
  /\ GStrict
  /\ g.pc = "returned"
  /\ g.checked # <<>>
  /\ g.checked[Len(g.checked)].level = "nominatim"
  /\ g.result[1].check.level = "exhausted"

\* the state of a run in the machine Sampling -> Checking -> (Accepted |
\* Sampling | Exhausted): Sampling at the loop test with attempts left,
\* Exhausted once the loop test has failed, Accepted after a return from
\* inside the loop
Phase(run) ==
  IF run.pc = "idle" THEN "Idle"
  ELSE IF run.pc \in {"nominatim", "overpass", "reverse"} THEN "Checking"
  ELSE IF run.i > run.maxAttempts THEN "Exhausted"
  ELSE IF run.pc = "loop" THEN "Sampling"
  ELSE "Accepted"

PhaseMoves ==
  { <<"Sampling", "Checking">>, <<"Checking", "Checking">>,
    <<"Checking", "Accepted">>, <<"Checking", "Sampling">>,
    <<"Checking", "Exhausted">>, <<"Exhausted", "Exhausted">> }

\* a step of a run follows the machine; it leaves neither Accepted nor
\* Exhausted, and it comes back to Sampling only with the next attempt
\* number, which is still within maxAttempts
PhaseStep(run, next) ==
  /\ <<Phase(run), Phase(next)>> \in PhaseMoves
  /\ Phase(run) = "Exhausted" => next.pc = "returned"
  /\ Phase(next) = "Sampling" => next.i = run.i + 1 /\ next.i <= next.maxAttempts

\* C20: every orchestrator run, each external call resolving or failing in
\* the end, eventually returns, Accepted or Exhausted; until then it moves as
\* Sampling -> Checking -> (Accepted | Sampling | Exhausted), back to
\* Sampling only while attempts remain, and it never leaves Accepted or
\* Exhausted.
C20_RunFollowsMachineAndReturns ==
  /\ <>(g.pc \in {"idle", "returned"} /\ l.pc \in {"idle", "returned"})
  /\ [][ /\ g' # g => PhaseStep(g, g')
         /\ l' # l => PhaseStep(l, l') ]_vars

\* a strict run of rollUntilLikelyLand went through Sampling and Checking
\* three times or more and returned Exhausted
C20_Witness ==
  /\ LStrict
  /\ l.pc = "returned"
  /\ Phase(l) = "Exhausted"
  /\ Len(l.checked) = l.maxAttempts
  /\ l.maxAttempts >= 3

\* ------------------------------------------------- the point generators
InBounds(bounds, lat, lon) ==
  /\ bounds.latMin <= lat /\ lat <= bounds.latMax
  /\ bounds.lonMin <= lon /\ lon <= bounds.lonMax

C15_PointLiesInRectangle ==
  /\ \A x \in gen.results :
       x[1][2] \in DOMAIN COUNTRY_BOUNDS =>
         InBounds(COUNTRY_BOUNDS[x[1][2]], x[2].lat, x[2].lon)
  /\ \A i \in 1..Len(gen.probe) :
       gen.probe[i].countryCode \in DOMAIN COUNTRY_BOUNDS =>
         InBounds(COUNTRY_BOUNDS[gen.probe[i].countryCode],
                  gen.probe[i].lat, gen.probe[i].lon)

\* the greatest draws gave a point that rounds to the corner (latMax, lonMax)
\* of the rectangle of the United Kingdom
C15_Witness ==
  /\ gen.probe # <<>>
  /\ gen.probe[1].countryCode = <<"G", "B">>
  /\ gen.probe[1].dLat = <<65535, 65535>>
  /\ gen.probe[1].dLon = <<65535, 65535>>
  /\ gen.probe[1].lat = COUNTRY_BOUNDS[<<"G", "B">>].latMax
  /\ gen.probe[1].lon = COUNTRY_BOUNDS[<<"G", "B">>].lonMax

\* C16: for a countryCode that is not a key of COUNTRY_BOUNDS the generator
\* returns a point with the name of New Zealand that lies in the rectangle
\* of New Zealand.
C16_UnknownCountryFallsBackToNZ ==
  \A x \in gen.results :
    x[1][2] \notin DOMAIN COUNTRY_BOUNDS =>
      /\ x[2].country = COUNTRY_BOUNDS[<<"N", "Z">>].name
      /\ InBounds(COUNTRY_BOUNDS[<<"N", "Z">>], x[2].lat, x[2].lon)

\* --------------------------------------------------- the generation page
\* C13: on the generation page at most one sampling run is in flight,
\* whatever reroll clicks and changes of country, mode and tile size arrive
\* while an earlier run waits.
C13_AtMostOneRunInFlight == Len(page.flying) <= 1

\* ----------------------------------------------------- the checkout page
\* localStorage holds no item, or one that JSON.parse rejects
NoValidItem ==
  shop.stored = <<>> \/ JSONparse(shop.stored[1]) = Thrown

\* C17: loadSpot never throws. When the item is absent or is not valid JSON
\* it returns null: the checkout page shows its no-spot state with the pay
\* button disabled, and it sends no create request.
C17_NoSpotWithoutValidItem ==
  /\ shop.pc # "loadThrew"
  /\ NoValidItem /\ shop.pc # "idle" =>
       /\ shop.spot = JsNull
       /\ shop.pc = "noSpot"
       /\ shop.status = "No saved tile."
       /\ shop.payDisabled
       /\ ~shop.listener
       /\ shop.requests = <<>>

\* the page was opened on a saved spot that is cut before its end
C17_Witness ==
  /\ shop.stored = << T_spot \o T_tile >>
  /\ shop.pc = "noSpot"
  /\ shop.payDisabled

\* ------------------------------------------------ create, then verify
\* x and y are the same number
SameNumber(x, y) ==
  /\ isFinite(x) /\ isFinite(y)
  /\ \/ x.m = 0 /\ y.m = 0
     \/ /\ x.neg = y.neg
        /\ IF x.d >= y.d THEN x.m = y.m * Pow10(x.d - y.d)
                         ELSE y.m = x.m * Pow10(y.d - x.d)

\* y is x rounded to six decimals: 2 * |x - y| <= 10^-6
RoundedToSix(x, y) ==
  /\ isFinite(x) /\ isFinite(y) /\ y.d = 6
  /\ LET D  == IF x.d >= 6 THEN x.d ELSE 6
         sx == (IF x.neg THEN 0 - x.m ELSE x.m) * Pow10(D - x.d)
         sy == (IF y.neg THEN 0 - y.m ELSE y.m) * Pow10(D - 6)
         gap == IF sx >= sy THEN sx - sy ELSE sy - sx
     IN  2 * gap <= Pow10(D - 6)

\* a string that asStr(v, max) || default returns as it is
Plain(v, max) == IsString(v) /\ v.val # <<>> /\ Trim(v.val) = v.val /\ Len(v.val) <= max

\* the request carries the six fields of the tile, as strings
CarriesTile(req) ==
  /\ IsString(req.country) /\ IsString(req.mode) /\ IsString(req.seed)
  /\ IsString(req.lat) /\ IsString(req.lon) /\ IsString(req.tile_m)

Symmetric(low, mid, high) == DoubleSame(DoubleSub(high, mid), DoubleSub(mid, low))

CornersShareBounds(t) ==
  /\ t.corners.NW.lat = t.bounds.north /\ t.corners.NE.lat = t.bounds.north
  /\ t.corners.SW.lat = t.bounds.south /\ t.corners.SE.lat = t.bounds.south
  /\ t.corners.NW.lon = t.bounds.west /\ t.corners.SW.lon = t.bounds.west
  /\ t.corners.NE.lon = t.bounds.east /\ t.corners.SE.lon = t.bounds.east

\* size * size for a size <<n, j>>, exactly
SquareOf(size) == Num(FALSE, size[1] * size[1] * (IF size[2] = 0 THEN 1 ELSE IF size[2] = 1 THEN 25 ELSE 625), 2 * size[2])

C22_AttemptsGiveDifferentPoints ==
  /\ ~sweep.collided
  /\ BoundsOf(sweep.countryCode).latMin # NaNCoord => Cardinality(sweep.seen) = sweep.n

C22_Witness ==
  /\ sweep.n = MaxAttemptNumber
  /\ sweep.countryCode = S_NZ
  /\ Cardinality(sweep.seen) = sweep.n

\* ------------------------------------------- properties of the place check
\* the type or the category of the response has a water keyword in it
MatchesWater(data) ==
  \E w \in waterWords :
    Includes(toLowerCase(data.type), w) \/ Includes(toLowerCase(data.category), w)

NoCountry(data) == "country" \notin data.address

\* no road signal, no locality signal and no name of more than 12 characters
NoSignal(data) ==
  /\ data.address \cap {"road", "pedestrian", "footway", "cycleway"} = {}
  /\ data.address \cap {"city", "town", "village", "hamlet", "suburb", "neighbourhood"} = {}
  /\ Len(Trim(data.display_name)) <= 12

\* C23: reverseCheckNominatim answers ok = false whenever the type or the
\* category of the response matches a water keyword, or the response has no
\* country, or it has no road, locality or named-place signal; it answers
\* ok = true only when none of the three holds (and then it does).
C23_PlaceCheckRejectsExactlyOnTheThree ==
  lookup.nom # <<>> =>
    (lookup.nom[1].ok <=>
       ~(MatchesWater(lookup.data) \/ NoCountry(lookup.data) \/ NoSignal(lookup.data)))

C23_Witness ==
  /\ lookup.nom # <<>>
  /\ ~lookup.nom[1].ok
  /\ ~MatchesWater(lookup.data) /\ NoCountry(lookup.data) /\ ~NoSignal(lookup.data)

\* ------------------------------------- properties of the proximity check
\* the check of the candidate that rollUntilGood looked at last
LastCheck == g.best[1].check

\* C24: overpassHasHighwayNearby is called only in strict mode and only
\* after reverseCheckNominatim has answered ok for the same candidate; a count
\* of zero gives ok = false with level "overpass"; a check of level "strong"
\* has the place check passed and a count above zero.
C24_ProximityOnlyAfterPlaceCheckPassed ==
  /\ \A k \in 1..Len(g.fetches) :
       g.fetches[k].svc = "overpass" =>
         /\ g.mode = S_publicish
         /\ k > 1
         /\ g.fetches[k - 1] = [svc |-> "nominatim", i |-> g.fetches[k].i]
  /\ g.pc = "overpass" => g.nom # NoNom /\ g.nom[1].ok
  /\ g.best # Null =>
       /\ LastCheck.roads.state # "absent" => LastCheck.nom # NoNom /\ LastCheck.nom[1].ok
       /\ (LastCheck.roads.state = "result" /\ LastCheck.roads.count = 0) =>
            ~LastCheck.ok /\ LastCheck.level = "overpass"
       /\ LastCheck.level = "strong" =>
            /\ LastCheck.ok
            /\ LastCheck.nom # NoNom /\ LastCheck.nom[1].ok
            /\ LastCheck.roads.state = "result" /\ LastCheck.roads.count > 0

C24_Witness ==
  /\ g.best # Null
  /\ LastCheck.level = "overpass"
  /\ LastCheck.roads = [state |-> "result", count |-> 0]
  /\ Len(g.fetches) >= 2
  /\ g.fetches[Len(g.fetches)].svc = "overpass"

\* what the step that ends a call of strongLandCheck leaves behind
OverpassFailed == g.pc = "overpass" /\ g'.pc # "overpass" /\ g'.best[1].check.roads.state = "error"

OverpassFoundNothing ==
  /\ g.pc = "overpass" /\ g'.pc # "overpass"
  /\ g'.best[1].check.roads = [state |-> "result", count |-> 0]

PlaceCallFailed ==
  /\ g.pc = "nominatim" /\ g'.pc \in {"loop", "returned"}
  /\ g.mode = S_publicish
  /\ g'.best[1].check.nom = NoNom

\* C25: when the Overpass call fails after the place check passed, the
\* candidate is accepted with level "fallback" and the run returns it; when the
\* call succeeds and finds nothing, the candidate is rejected and the run goes
\* on to the next attempt number; when the place call fails in strict mode, the
\* candidate is rejected and the run goes on.
C25_FailedCallIsNotNegativeResult ==
  [][ /\ OverpassFailed =>
           /\ g'.best[1].check.ok /\ g'.best[1].check.level = "fallback"
           /\ g'.best[1].check.nom[1].ok
           /\ g'.pc = "returned" /\ g'.result = g'.best
      /\ OverpassFoundNothing =>
           /\ ~g'.best[1].check.ok /\ g'.best[1].check.level = "overpass"
           /\ g'.pc = "loop" /\ g'.i = g.i + 1 /\ g'.result = Null
      /\ PlaceCallFailed =>
           /\ ~g'.best[1].check.ok /\ g'.best[1].check.level = "error"
           /\ g'.pc = "loop" /\ g'.i = g.i + 1 /\ g'.result = Null
    ]_vars

C25_Witness ==
  /\ g.pc = "returned"
  /\ g.best # Null
  /\ g.result = g.best
  /\ LastCheck.level = "fallback" /\ LastCheck.ok
  /\ LastCheck.roads.state = "error"
  /\ Len(g.checked) >= 2
  /\ g.checked[1] = [ok |-> FALSE, level |-> "overpass"]

\* ------------------------------------------- properties of the sent marker
Marked(k) == toLowerCase(piMeta[k].certificate_emailed) = S_yes

\* an invocation of deliver ends while it makes the PDF or sends the mail
FailsBeforeMarker(c) == call[c].pc \in {"pdf", "send"} /\ call'[c].pc = "done"

\* C26: the certificate_emailed marker of a payment is "yes" only if at least
\* one mail was sent for it; when generateCertificatePDFBuffer or sendMail
\* fails, the invocation answers 500 and leaves the marker and the mails as they
\* were, so that an invocation that finds no marker still goes on to send.
C26_MarkerOnlyAfterMail ==
  /\ [](\A k \in 1..Len(piMeta) : Marked(k) => MailCount(k) >= 1)
  /\ [][\A c \in Calls :
          FailsBeforeMarker(c) =>
            /\ call'[c].resp.status = 500
            /\ piMeta' = piMeta
            /\ mails' = mails]_vars
  /\ [](\A c \in Calls :
          (call[c].pc = "pdf" /\ ~Marked(call[c].k)) =>
             DeliverDecision(sessions[call[c].k], piMeta[call[c].k]) = NoResp)

C26_Witness ==
  \E c \in Calls, c2 \in Calls :
    /\ call[c].pc = "done" /\ call[c].resp.status = 500 /\ call[c].k = 1
    /\ call[c].to # <<>> /\ call[c].sent = 0
    /\ call[c2].k = 1 /\ call[c2].pc = "done" /\ call[c2].resp = Resp(200, "sent", TRUE)
    /\ ~call[c2].after
    /\ Marked(1) /\ MailCount(1) = 1

C28_LockEnabledOnlyForSelectedCountry ==
  /\ (~page.lockDisabled /\ page.current # <<>>) =>
       /\ page.current[1].countryCode = page.country
       /\ page.current[1].mode = page.mode
  /\ page.flying # <<>> => page.rerollDisabled /\ page.lockDisabled

\* ------------------------------------- properties of the create validations
\* the number that a field of the request stands for: NaN when the field is
\* missing, is no string, or is blank
NumberSent(v) ==
  IF IsString(v) /\ Trim(v.val) # <<>> THEN Number(Trim(v.val)) ELSE NaN

\* tile_m defaults to "1" when it is missing
TileSent(v) == IF v = Undefined THEN Num(FALSE, 1, 0) ELSE NumberSent(v)

ConsentSent(req) ==
  IsString(req.email_consent) /\ toLowerCase(Trim(req.email_consent.val)) = S_yes

\* the request passes the validations that the claim lists
PassesValidations(req) ==
  /\ isFinite(NumberSent(req.lat)) /\ ~AbsGreater(NumberSent(req.lat), 90)
  /\ isFinite(NumberSent(req.lon)) /\ ~AbsGreater(NumberSent(req.lon), 180)
  /\ isFinite(TileSent(req.tile_m))
  /\ ~NonPositive(TileSent(req.tile_m)) /\ ~AbsGreater(TileSent(req.tile_m), 1000)
  /\ ConsentSent(req) => IsString(req.email) /\ looksLikeEmail(Trim(req.email.val))

\* C29: create opens a checkout session only for a request whose lat and lon
\* are finite numbers with |lat| <= 90 and |lon| <= 180, whose tile_m is a
\* finite number in (0, 1000], and whose email is well-formed when
\* email_consent is yes (any other request is answered 400); the metadata lat
\* and lon of the session are those numbers with six decimals.
C29_SessionOnlyForValidRequest ==
  \A k \in 1..Len(sessions) :
    /\ PassesValidations(sessions[k].req)
    /\ sessions[k].metadata.lat = toFixed6(NumberSent(sessions[k].req.lat))
    /\ sessions[k].metadata.lon = toFixed6(NumberSent(sessions[k].req.lon))

\* two results of calls with the same countryCode, mode, userSeed and attempt
SameArguments(x, y) ==
  /\ x[1][2] = y[1][2]
  /\ x[1][3] = y[1][3]
  /\ x[1][4] = y[1][4]
  /\ x[1][5] = y[1][5]

\* C30: the three point generators agree. On the same countryCode, mode,
\* userSeed and attempt, rollSpot of public/app.js and rollCenter of part_001
\* return the same lat, lon, seed label, country and attempt number (NaN for
\* NaN where the country code has no rectangle); rollSpot of part_000 returns
\* the same lat, lon and seed label as both when mode is not publicish; in
\* publicish mode it draws three values for each of at most 120 tries, and
\* where the country code has a rectangle, its own or New Zealand's, the
\* result lies in it.
C30_GeneratorsAgree ==
  /\ \A x \in gen.results, y \in gen.results :
       (x[1][1] = "rollSpot" /\ y[1][1] = "rollCenter" /\ SameArguments(x, y)) =>
         /\ x[2].lat = y[2].lat
         /\ x[2].lon = y[2].lon
         /\ x[2].seed = y[2].seed
         /\ x[2].country = y[2].country
         /\ x[2].rerolls = y[2].rerolls
  /\ \A x \in gen.results, y \in gen.results :
       (/\ x[1][1] = "rollSpotBiased"
        /\ y[1][1] \in {"rollSpot", "rollCenter"}
        /\ SameArguments(x, y)
        /\ x[1][3] # <<"p", "u", "b", "l", "i", "c", "i", "s", "h">>) =>
         /\ x[2].lat = y[2].lat
         /\ x[2].lon = y[2].lon
         /\ x[2].seed = y[2].seed
         /\ x[3] = 2
  /\ \A x \in gen.results :
       (/\ x[1][1] = "rollSpotBiased"
        /\ x[1][3] = <<"p", "u", "b", "l", "i", "c", "i", "s", "h">>) =>
         /\ \E tries \in 1..120 : x[3] = 3 * tries
         /\ BoundsOf(x[1][2]).latMin # NaNCoord =>
              InBounds(BoundsOf(x[1][2]), x[2].lat, x[2].lon)

\* rollSpot of part_000 was called in publicish mode for the United Kingdom
\* and made more than one try, rollCenter was called with the same arguments,
\* and the two points differ
C30_Witness ==
  \E x \in gen.results, y \in gen.results :
    /\ x[1][1] = "rollSpotBiased"
    /\ y[1][1] = "rollCenter"
    /\ SameArguments(x, y)
    /\ x[1][2] = <<"G", "B">>
    /\ x[1][3] = <<"p", "u", "b", "l", "i", "c", "i", "s", "h">>
    /\ x[3] > 3
    /\ x[2].lat # y[2].lat
    /\ x[2].seed = y[2].seed

====
